---- MODULE Spec2Model ----
(***************************************************************************)
(* A model of the CppON value tree (CppON.hpp / CppON.cpp): the COMap and  *)
(* COArray containers, their path lookup and mutation, their equality, and *)
(* the text parsers and serializers.                                       *)
(*                                                                         *)
(* A C string is a sequence of one-character strings; a position p in a    *)
(* text is the pointer &text[p-1], and reading at Len+1 yields the         *)
(* terminating NUL.  A node is a record carrying the allocation identity   *)
(* (id), the CppONType (typ) and the payload.  A COMap keeps its std::map  *)
(* as the key-sorted sequence keys with the parallel sequence kids, next   *)
(* to the insertion-order vector order.                                    *)
(***************************************************************************)
EXTENDS Integers, Sequences, FiniteSets, TLC

(***************************************************************************)
(* Characters and C strings                                                *)
(***************************************************************************)
\* A local variable of the code that is read more than once is bound as
\* x \in {value} in a one-element set { e(x) : x \in {value} }; The yields e(x).
The(S) == CHOOSE x \in S : TRUE

NUL == "NUL"

\* a byte other than NUL that is neither printable nor tab nor a line end
CTL == "CTL"

\* the byte 0x60, which has no string literal
GRAVE == "GRAVE"

Printable ==
  <<
    " ", "!", "\"", "#", "$", "%", "&", "'", "(", ")", "*", "+", ",", "-", ".", "/",
    "0", "1", "2", "3", "4", "5", "6", "7", "8", "9", ":", ";", "<", "=", ">", "?",
    "@", "A", "B", "C", "D", "E", "F", "G", "H", "I", "J", "K", "L", "M", "N", "O",
    "P", "Q", "R", "S", "T", "U", "V", "W", "X", "Y", "Z", "[", "\\", "]", "^", "_",
    GRAVE, "a", "b", "c", "d", "e", "f", "g", "h", "i", "j", "k", "l", "m", "n", "o",
    "p", "q", "r", "s", "t", "u", "v", "w", "x", "y", "z", "{", "|", "}", "~"
  >>

CharSet == {Printable[i] : i \in 1..95} \cup {"\t", "\n", "\r", NUL, CTL}

OrdTab ==
  [c \in CharSet |->
     IF c = NUL THEN 0
     ELSE IF c = CTL THEN 1
     ELSE IF c = "\t" THEN 9
     ELSE IF c = "\n" THEN 10
     ELSE IF c = "\r" THEN 13
     ELSE 31 + (CHOOSE i \in 1..95 : Printable[i] = c)]

Ord(c) == OrdTab[c]

Chr(n) == Printable[n - 31]

IsDigit(c) == c \in {"0", "1", "2", "3", "4", "5", "6", "7", "8", "9"}

DigitVal(c) == Ord(c) - 48

ToLower(c) == IF Ord(c) >= 65 /\ Ord(c) <= 90 THEN Chr(Ord(c) + 32) ELSE c

LowerStr(s) == [i \in 1..Len(s) |-> ToLower(s[i])]

\* text[p-1] of a NUL-terminated buffer
At(s, p) == IF p >= 1 /\ p <= Len(s) THEN s[p] ELSE NUL

\* the tail of the buffer starting at position p
From(s, p) == IF p > Len(s) THEN <<>> ELSE SubSeq(s, p, Len(s))

\* std::string::find( ch ): the first position of ch in s, 0 for npos
IndexOf(s, ch) ==
  IF \E i \in 1..Len(s) : s[i] = ch
  THEN CHOOSE i \in 1..Len(s) : s[i] = ch /\ \A j \in 1..(i - 1) : s[j] # ch
  ELSE 0

strcasecmp(a, b) == IF LowerStr(a) = LowerStr(b) THEN 0 ELSE 1

strcmp(a, b) == IF a = b THEN 0 ELSE 1

\* std::less<std::string>: bytewise lexicographic order of the map keys
RECURSIVE StrLess(_, _)
StrLess(a, b) ==
  IF b = <<>> THEN FALSE
  ELSE IF a = <<>> THEN TRUE
  ELSE IF a[1] = b[1] THEN StrLess(Tail(a), Tail(b))
  ELSE Ord(a[1]) < Ord(b[1])

InsertAt(seq, i, x) == SubSeq(seq, 1, i - 1) \o <<x>> \o SubSeq(seq, i, Len(seq))

RemoveAt(seq, i) == SubSeq(seq, 1, i - 1) \o SubSeq(seq, i + 1, Len(seq))

\* the number of consecutive decimal digits of s starting at position p
RECURSIVE CountDigits(_, _)
CountDigits(s, p) == IF IsDigit(At(s, p)) THEN 1 + CountDigits(s, p + 1) ELSE 0

RECURSIVE DecValue(_, _, _)
DecValue(s, p, n) ==
  IF n = 0 THEN 0 ELSE DecValue(s, p, n - 1) * 10 + DigitVal(s[p + n - 1])

IsSpace(c) == c \in {" ", "\t", "\n", "\r"}

RECURSIVE SkipSpace(_, _)
SkipSpace(s, p) == IF IsSpace(At(s, p)) THEN SkipSpace(s, p + 1) ELSE p

\* the position after an optional sign at q
SignEnd(s, q) == IF At(s, q) \in {"+", "-"} THEN q + 1 ELSE q

\* strtol / strtoll( &s[p-1], &end, 10 ): value and end position; with no
\* digits the value is 0 and end is the start position p
strtol(s, p) ==
  The({ The({
    IF n = 0 THEN [val |-> 0, end |-> p]
    ELSE [val |-> IF At(s, q) = "-"
                  THEN 0 - DecValue(s, SignEnd(s, q), n) ELSE DecValue(s, SignEnd(s, q), n),
          end |-> SignEnd(s, q) + n]
    : n \in {CountDigits(s, SignEnd(s, q))} })
    : q \in {SkipSpace(s, p)} })

(***************************************************************************)
(* Nodes                                                                   *)
(***************************************************************************)
CppON(id, typ) ==
  [id |-> id, typ |-> typ, num |-> 0, siz |-> 0, uns |-> FALSE, prec |-> -1,
   str |-> <<>>, order |-> <<>>, keys |-> <<>>, kids |-> <<>>]

\* the null pointer
NoNode == CppON(0, "None")

COInteger(id, i, sz) == [CppON(id, "Integer") EXCEPT !.num = i, !.siz = sz]

\* COInteger( T i ) for T one of uint8_t, uint16_t, uint32_t, uint64_t
COUInteger(id, i, sz) == [COInteger(id, i, sz) EXCEPT !.uns = TRUE]

\* doubles are held in units of 1/DScale
DScale == 10000

CODouble(id, d) == [CppON(id, "Double") EXCEPT !.num = d, !.siz = 8, !.prec = 10]

COBoolean(id, v) == [CppON(id, "Boolean") EXCEPT !.num = IF v THEN 1 ELSE 0, !.siz = 1]

CONull(id) == CppON(id, "Null")

\* COString( const char *st ): the bytes verbatim
COString(id, st) == [CppON(id, "String") EXCEPT !.str = st]

RECURSIVE EscapeStd(_)
EscapeStd(st) ==
  IF st = <<>> THEN <<>>
  ELSE (IF st[1] = "\"" THEN <<"%", "2", "2">>
        ELSE IF st[1] = "%" THEN <<"%", "2", "5">>
        ELSE <<st[1]>>) \o EscapeStd(Tail(st))

\* COString( std::string st ): quote and percent are escaped
COStringStd(id, st) == [CppON(id, "String") EXCEPT !.str = EscapeStd(st)]

COMap(id) == CppON(id, "Map")

COArray(id) == CppON(id, "Array")

isMap(n) == n.typ = "Map"
isArray(n) == n.typ = "Array"
isString(n) == n.typ = "String"
isInteger(n) == n.typ = "Integer"
isDouble(n) == n.typ = "Double"
isObj(n) == n.typ \in {"Integer", "Double", "String", "Null", "Boolean", "Map", "Array"}

\* the identities of all nodes of a tree
RECURSIVE Ids(_)
Ids(n) ==
  IF n.typ = "None" THEN {}
  ELSE {n.id} \cup UNION {Ids(n.kids[i]) : i \in 1..Len(n.kids)}

RECURSIVE NodeCount(_)
NodeCount(n) ==
  IF n.typ = "None" THEN 0
  ELSE LET RECURSIVE Sum(_)
           Sum(i) == IF i = 0 THEN 0 ELSE NodeCount(n.kids[i]) + Sum(i - 1)
       IN 1 + Sum(Len(n.kids))

\* the node reached from n by the child indices of loc
RECURSIVE NodeAt(_, _)
NodeAt(n, loc) == IF loc = <<>> THEN n ELSE NodeAt(n.kids[loc[1]], Tail(loc))

RECURSIVE ReplaceAt(_, _, _)
ReplaceAt(n, loc, x) ==
  IF loc = <<>> THEN x
  ELSE [n EXCEPT !.kids[loc[1]] = ReplaceAt(@, Tail(loc), x)]

(***************************************************************************)
(* std::map< std::string, CppON* >                                         *)
(***************************************************************************)
\* m->find( key ): the index of the entry, 0 for end()
MapFind(n, key) ==
  IF \E i \in 1..Len(n.keys) : n.keys[i] = key
  THEN CHOOSE i \in 1..Len(n.keys) : n.keys[i] = key
  ELSE 0

MapErase(n, i) == [n EXCEPT !.keys = RemoveAt(@, i), !.kids = RemoveAt(@, i)]

\* m->insert( pair( key, v ) ): no effect when the key is present
MapInsert(n, key, v) ==
  IF MapFind(n, key) # 0 THEN n
  ELSE LET p == 1 + Cardinality({i \in 1..Len(n.keys) : StrLess(n.keys[i], key)})
       IN [n EXCEPT !.keys = InsertAt(@, p, key), !.kids = InsertAt(@, p, v)]

\* std::find + erase on the order vector: the first occurrence only
EraseFirst(order, key) ==
  LET i == IndexOf(order, key) IN IF i = 0 THEN order ELSE RemoveAt(order, i)

\* dm[ key ] = v: overwrite the entry or insert it
MapPut(n, key, v) ==
  LET i == MapFind(n, key)
  IN IF i # 0 THEN [n EXCEPT !.kids[i] = v] ELSE MapInsert(n, key, v)

(***************************************************************************)
(* Path lookup                                                             *)
(***************************************************************************)
\* the result of a lookup: the child-index path of the node below the map
\* it was asked of; ok = FALSE is the NULL result
NotFound == [ok |-> FALSE, loc |-> <<>>]

Under(i, r) == IF r.ok THEN [ok |-> TRUE, loc |-> <<i>> \o r.loc] ELSE NotFound

\* splitPath: everything before the first slash, and the text after it
splitPath(str) ==
  LET slash == IndexOf(str, "/")
  IN IF slash = 0 THEN [val |-> str, remainder |-> <<>>]
     ELSE [val |-> SubSeq(str, 1, slash - 1), remainder |-> From(str, slash + 1)]

\* COArray::at( i ), i counted from 0
at(arr, i) == IF i < 0 \/ Len(arr.kids) <= i THEN NoNode ELSE arr.kids[i + 1]

\* the first entry, in std::map iteration order, whose key matches s
FirstMatch(n, s, nocase) ==
  LET hit(i) == IF nocase THEN strcasecmp(n.keys[i], s) = 0 ELSE strcmp(n.keys[i], s) = 0
  IN IF \E i \in 1..Len(n.keys) : hit(i)
     THEN CHOOSE i \in 1..Len(n.keys) : hit(i) /\ \A j \in 1..(i - 1) : ~hit(j)
     ELSE 0

\* findElement (nocase = FALSE) and findCaseElement (nocase = TRUE)
RECURSIVE FindPath(_, _, _)
RECURSIVE WalkArray(_, _, _, _)
FindPath(n, str, nocase) ==
  The({ The({ The({ The({
    IF i = 0 THEN NotFound
    ELSE IF isMap(n.kids[i]) /\ sp.remainder # <<>>
      THEN Under(i, FindPath(n.kids[i], sp.remainder, nocase))
    ELSE IF isArray(n.kids[i]) /\ idx # 0 /\ 0 <= numb.val
      \* arrayIndex = numb.val, more = the text after the number
      THEN Under(i, WalkArray(n.kids[i], numb.val, From(sp.val, numb.end), sp.remainder))
    ELSE [ok |-> TRUE, loc |-> <<i>>]
    : i \in {FirstMatch(n, IF idx = 0 THEN sp.val ELSE SubSeq(sp.val, 1, idx - 1), nocase)} })
    : numb \in {strtol(sp.val, idx + 1)} })
    : idx \in {IndexOf(sp.val, ":")} })
    : sp \in {splitPath(str)} })

\* the while loop over chained array indices; the descent into a map found
\* in an array is by findElement in both lookups
WalkArray(arr, arrayIndex, more, str) ==
  The({
    IF rtn.typ = "None" THEN NotFound
    ELSE IF isMap(rtn) /\ str # <<>>
      THEN Under(arrayIndex + 1, FindPath(rtn, str, FALSE))
    ELSE IF ~isArray(rtn) \/ At(more, 1) # ":"
      THEN [ok |-> TRUE, loc |-> <<arrayIndex + 1>>]
    ELSE The({ IF 0 <= numb.val
               THEN Under(arrayIndex + 1, WalkArray(rtn, numb.val, From(more, numb.end), str))
               ELSE [ok |-> TRUE, loc |-> <<arrayIndex + 1>>]
               : numb \in {strtol(more, 2)} })
    : rtn \in {at(arr, arrayIndex)} })

\* findElement that gives up after the head of the path
findElementHead(n, str) == FindPath(n, splitPath(str).val, FALSE)

findElement(n, str) == FindPath(n, str, FALSE)

findCaseElement(n, str) == FindPath(n, str, TRUE)

\* the node a lookup result points at
Deref(n, r) == IF r.ok THEN NodeAt(n, r.loc) ELSE NoNode

(***************************************************************************)
(* COMap mutation                                                          *)
(* Every operation yields the new map, the next free identity (next) and   *)
(* the identities it deleted (del).                                        *)
(***************************************************************************)
RECURSIVE append(_, _, _, _)

\* append of a plain key: an entry already there is deleted and leaves the
\* order list, then the new one is inserted and pushed onto the order list
appendKey(n, key, v, nid, i) ==
  [map  |-> [MapInsert(IF i # 0
                       THEN [MapErase(n, i) EXCEPT !.order = EraseFirst(@, key)]
                       ELSE n, key, v)
               EXCEPT !.order = Append(@, key)],
   rtn  |-> 0,
   next |-> nid,
   del  |-> IF i # 0 THEN Ids(n.kids[i]) ELSE {}]

\* append of a path: a is the map once the head exists, mp == the head at loc
appendBelow(a, loc, mp, rest, v) ==
  IF isMap(mp)
  THEN The({ [map  |-> ReplaceAt(a.map, loc, r.map),
              rtn  |-> r.rtn,
              next |-> r.next,
              del  |-> a.del \cup r.del]
             : r \in {append(mp, rest, v, a.next)} })
  ELSE IF isArray(mp)
  THEN [map  |-> ReplaceAt(a.map, loc, [mp EXCEPT !.kids = Append(@, v)]),
        rtn  |-> 0,
        next |-> a.next,
        del  |-> a.del]
  ELSE [map |-> a.map, rtn |-> -1, next |-> a.next, del |-> a.del]

\* the head s of the path is looked up by findElement( s ) == f;
\* if( !mp ) append( s, mp = new COMap() )
appendPath(n, s, rest, v, nid, f) ==
  IF f.ok
  THEN appendBelow([map |-> n, rtn |-> 0, next |-> nid, del |-> {}],
                   f.loc, NodeAt(n, f.loc), rest, v)
  ELSE The({ appendBelow(a, <<MapFind(a.map, s)>>, a.map.kids[MapFind(a.map, s)], rest, v)
             : a \in {append(n, s, COMap(nid), nid + 1)} })

append(n, key, v, nid) ==
  The({ IF pos = 0
        THEN appendKey(n, key, v, nid, MapFind(n, key))
        ELSE appendPath(n, SubSeq(key, 1, pos - 1), From(key, pos + 1), v, nid,
                        findElement(n, SubSeq(key, 1, pos - 1)))
        : pos \in {IndexOf(key, "/")} })

\* extract: the entry leaves the map and the order list, nothing is deleted
extract(n, name) ==
  LET i == MapFind(n, name)
  IN IF i = 0 THEN [map |-> n, rtn |-> NoNode]
     ELSE [map |-> [MapErase(n, i) EXCEPT !.order = EraseFirst(@, name)],
           rtn |-> n.kids[i]]

removeVal(n, s) ==
  LET i == MapFind(n, s)
  IN IF i = 0 THEN n ELSE [MapErase(n, i) EXCEPT !.order = EraseFirst(@, s)]

\* COMap::clear: every child is deleted, the map and the order list emptied
clear(n) ==
  [map |-> [n EXCEPT !.keys = <<>>, !.kids = <<>>, !.order = <<>>],
   del |-> UNION {Ids(n.kids[i]) : i \in 1..Len(n.kids)}]

(***************************************************************************)
(* Copy construction                                                       *)
(***************************************************************************)
\* The copy constructors allocate the container first and its children in
\* iteration order; the clone of a tree with k nodes takes nid..nid+k-1.
\* A key of the order list that the lookup does not resolve makes the
\* constructor dereference NULL: the result is then a node of type "Fault".
RECURSIVE factory(_, _)
RECURSIVE COMapCopyFrom(_, _, _, _)
RECURSIVE COArrayCopyFrom(_, _, _, _)

\* COMap( COMap &mt ): each key of mt.order is resolved by findCaseElement
COMapCopyFrom(mt, k, acc, next) ==
  IF k > Len(mt.order) THEN acc
  ELSE The({
         IF ~f.ok THEN CppON(acc.id, "Fault")
         ELSE The({ COMapCopyFrom(mt, k + 1,
                                  [MapPut(acc, mt.order[k], c)
                                     EXCEPT !.order = Append(@, mt.order[k])],
                                  next + NodeCount(c))
                    : c \in {factory(NodeAt(mt, f.loc), next)} })
         : f \in {findCaseElement(mt, mt.order[k])} })

COMapCopy(mt, nid) == COMapCopyFrom(mt, 1, COMap(nid), nid + 1)

\* COArray( COArray &at )
COArrayCopyFrom(arr, i, acc, next) ==
  IF i > Len(arr.kids) THEN acc
  ELSE The({ COArrayCopyFrom(arr, i + 1, [acc EXCEPT !.kids = Append(@, c)],
                             next + NodeCount(c))
             : c \in {factory(arr.kids[i], next)} })

COArrayCopy(arr, nid) ==
  COArrayCopyFrom(arr, 1, [COArray(nid) EXCEPT !.siz = Len(arr.kids)], nid + 1)

\* a factory that hands out the node it was given instead of a copy
factoryShared(jt, nid) == jt

\* CppON::factory and the scalar copy constructors
factory(jt, nid) ==
  CASE jt.typ = "Integer" -> COInteger(nid, jt.num, jt.siz)
    [] jt.typ = "Double"  -> [CppON(nid, "Double") EXCEPT !.num = jt.num]
    [] jt.typ = "String"  -> COString(nid, jt.str)
    [] jt.typ = "Null"    -> CONull(nid)
    [] jt.typ = "Boolean" -> COBoolean(nid, jt.num = 1)
    [] jt.typ = "Map"     -> COMapCopy(jt, nid)
    [] jt.typ = "Array"   -> COArrayCopy(jt, nid)
    [] OTHER              -> NoNode

RECURSIVE Faulted(_)
Faulted(n) == n.typ = "Fault" \/ \E i \in 1..Len(n.kids) : Faulted(n.kids[i])

(***************************************************************************)
(* Equality                                                                *)
(***************************************************************************)
RECURSIVE Equals(_, _)
RECURSIVE COMapEquals(_, _)

\* COArray::operator==: at( i ) == at( i ) compares the two CppON pointers
COArrayEquals(this, val) ==
  /\ Len(val.kids) = Len(this.kids)
  /\ \A i \in 1..Len(val.kids) : val.kids[i].id = this.kids[i].id

\* COMap::operator==: every entry of this is looked up in val by findElement
COMapEquals(this, val) ==
  \A i \in 1..Len(this.keys) :
     \E t \in {Deref(val, findElement(val, this.keys[i]))} :
        /\ isObj(t) /\ isObj(this.kids[i])
        /\ t.typ = this.kids[i].typ
        /\ Equals(t, this.kids[i])

\* CppON::operator== and the scalar operators it dispatches to
Equals(this, obj) ==
  IF this.typ # obj.typ THEN FALSE
  ELSE CASE this.typ = "Integer" -> this.num = obj.num
         [] this.typ = "Double"  -> this.num = obj.num
         [] this.typ = "String"  -> this.str = obj.str
         [] this.typ = "Null"    -> TRUE
         [] this.typ = "Boolean" -> this.num = obj.num
         [] this.typ = "Map"     -> COMapEquals(this, obj)
         [] this.typ = "Array"   -> COArrayEquals(this, obj)
         [] OTHER                -> FALSE

(***************************************************************************)
(* Assignment                                                              *)
(***************************************************************************)
Kids(n) == UNION {Ids(n.kids[i]) : i \in 1..Len(n.kids)}

RECURSIVE COMapAssignFrom(_, _, _, _)
COMapAssignFrom(val, i, acc, next) ==
  IF i > Len(val.keys) THEN [map |-> acc, next |-> next]
  ELSE The({ COMapAssignFrom(val, i + 1,
                             [MapInsert(acc, val.keys[i], c)
                                EXCEPT !.order = Append(@, val.keys[i])],
                             next + NodeCount(c))
             : c \in {factory(val.kids[i], next)} })

\* COMap::operator=( COMap &val ): the children are deleted, then val's
\* entries are cloned in std::map iteration order
COMapAssign(this, val, nid) ==
  The({ [map |-> r.map, next |-> r.next, del |-> Kids(this)]
        : r \in {COMapAssignFrom(val, 1,
                   [this EXCEPT !.keys = <<>>, !.kids = <<>>, !.order = <<>>,
                                !.siz = Len(val.keys)],
                   nid)} })

(***************************************************************************)
(* Conversions                                                             *)
(***************************************************************************)
\* the C cast (long long) of a double: truncation toward zero
Trunc(d) == IF d >= 0 THEN d \div DScale ELSE 0 - ((0 - d) \div DScale)

\* the value strtol( s, NULL, 0 ) reads from a string of decimal digits
toLongInt(n) ==
  CASE n.typ = "Integer" -> n.num
    [] n.typ = "Double"  -> Trunc(n.num)
    [] n.typ = "String"  -> strtol(n.str, 1).val
    [] n.typ = "Boolean" -> n.num
    [] OTHER             -> 0

RECURSIVE Pow10(_)
Pow10(p) == IF p = 0 THEN 1 ELSE 10 * Pow10(p - 1)

Abs(x) == IF x < 0 THEN 0 - x ELSE x

\* the digits DScale keeps after the decimal point
DScaleDigits == 4

\* round( d ) / pow_10 for d = pow_10 * val, halves away from zero
RoundTo(val, unit) ==
  LET q == (2 * Abs(val) + unit) \div (2 * unit)
  IN IF val < 0 THEN 0 - q * unit ELSE q * unit

\* CODouble::operator=( const double & ): with a precision in 0..16 the
\* stored value moves only when the change exceeds 0.75 units of the last
\* digit, and then to the rounded new value
CODoubleAssign(this, val) ==
  IF 0 > this.prec \/ 16 < this.prec THEN [this EXCEPT !.num = val]
  ELSE IF this.prec >= DScaleDigits
    THEN [this EXCEPT !.num = val]
  ELSE LET unit == DScale \div Pow10(this.prec)
       IN IF 4 * Abs(this.num - val) > 3 * unit
          THEN [this EXCEPT !.num = RoundTo(val, unit)]
          ELSE this

(***************************************************************************)
(* Integer arithmetic                                                      *)
(* The values of the model stay within 32 bits: the arithmetic of 1- and   *)
(* 2-byte nodes is exact, signed nodes of 4 and 8 bytes hold values that   *)
(* do not reach their limits.  The flag unSigned is read by doOperation    *)
(* only.                                                                   *)
(***************************************************************************)
RECURSIVE Pow2(_)
Pow2(n) == IF n = 0 THEN 1 ELSE 2 * Pow2(n - 1)

\* the division of C: the quotient is truncated toward zero
Quot(a, b) ==
  IF (a < 0) # (b < 0) THEN 0 - (Abs(a) \div Abs(b)) ELSE Abs(a) \div Abs(b)

\* the operators CPPON_ADD, CPPON_SUBTRACT, CPPON_MULTIPLY, CPPON_DIVIDE
Operate(op, a, b) ==
  CASE op = "+=" -> a + b
    [] op = "-=" -> a - b
    [] op = "*=" -> a * b
    [] op = "/=" -> Quot(a, b)

\* ( lo > rtn ) ? lo : ( ( hi < rtn ) ? hi : rtn )
Clamp(rtn, lo, hi) == IF lo > rtn THEN lo ELSE IF hi < rtn THEN hi ELSE rtn

\* the first switch of doOperation, on the size of the node: an unsigned
\* node of 1 or 2 bytes computes in its own width, a signed node of 1, 2 or
\* 4 bytes computes in 64 bits and is clamped, a node of 8 bytes is not
\* clamped
Stored(this, val, op) ==
  IF this.siz \in {1, 2}
  THEN IF this.uns
       THEN Operate(op, this.num, val % Pow2(8 * this.siz)) % Pow2(8 * this.siz)
       ELSE Clamp(Operate(op, this.num, val),
                  0 - Pow2(8 * this.siz - 1), Pow2(8 * this.siz - 1) - 1)
  ELSE IF this.siz = 4 /\ ~this.uns
  THEN Clamp(Operate(op, this.num, val), -2147483647 - 1, 2147483647)
  ELSE Operate(op, this.num, val)

\* the second switch of doOperation, on the size sz of the operand: the
\* value returned is limited once more
Returned(uns, sz, rtn) ==
  IF sz = 1 THEN IF uns THEN (IF rtn > 256 THEN 256 ELSE rtn) ELSE Clamp(rtn, -128, 127)
  ELSE IF sz = 2
  THEN IF uns THEN (IF rtn > 65535 THEN 65535 ELSE rtn) ELSE Clamp(rtn, -32768, 32767)
  ELSE rtn

\* COInteger::doOperation( unsigned sz, uint64_t val, CppONOperator op )
doOperation(this, sz, val, op) ==
  [node |-> [this EXCEPT !.num = Stored(this, val, op)],
   rtn  |-> Returned(this.uns, sz, Stored(this, val, op))]

(***************************************************************************)
(* merge and upDate                                                        *)
(* Results carry the new map, the next free identity, the identities       *)
(* deleted (del), those deleted a second time (twice) and fault: the call  *)
(* used a node as a type it is not, or deleted a node twice.               *)
(***************************************************************************)
Res(map, next, del) ==
  [map |-> map, next |-> next, del |-> del, twice |-> {}, fault |-> FALSE]

\* merge on a type mismatch: m->erase( it ); delete myObj; append( key, new )
\* (the order list is not touched by the erase)
MergeReplace(this, it, nw, next) ==
  The({ Res(a.map, a.next, Ids(this.kids[it]) \cup a.del)
        : a \in {append(MapErase(this, it), this.keys[it], nw, next)} })

\* the name string of an array element that is a map holding a string
\* under name; NoNode otherwise
NameOf(e, name) ==
  IF ~isMap(e) THEN NoNode
  ELSE The({ IF isString(r) THEN r ELSE NoNode : r \in {Deref(e, findElement(e, name))} })

\* the first element of arr that is a map with the same name string
MatchByName(arr, namePtr, name) ==
  The({ IF hits = {} THEN 0 ELSE CHOOSE i \in hits : \A j \in hits : i <= j
        : hits \in {{i \in 1..Len(arr.kids) :
                       \E str \in {NameOf(arr.kids[i], name)} :
                          isString(str) /\ strcmp(str.str, namePtr.str) = 0}} })

HasString(arr, str) ==
  \E i \in 1..Len(arr.kids) : isString(arr.kids[i]) /\ strcmp(str, arr.kids[i].str) = 0

RECURSIVE merge(_, _, _, _)
RECURSIVE MergeFrom(_, _, _, _, _)
RECURSIVE MergeEntry(_, _, _, _, _, _)
RECURSIVE MergeArray(_, _, _, _, _)
RECURSIVE MergeElement(_, _, _, _, _)

\* the results of two steps of one call, one after the other
Then(acc, r) ==
  [r EXCEPT !.del = acc.del \cup @, !.twice = acc.twice \cup @, !.fault = acc.fault \/ @]

\* one element e of the source array merged into the array arr
MergeElement(arr, e, namePtr, name, nid) ==
  IF isString(namePtr)
  THEN The({ IF i # 0
             THEN The({ [r EXCEPT !.map = [arr EXCEPT !.kids[i] = r.map]]
                        : r \in {merge(arr.kids[i], e, name, nid)} })
             ELSE The({ Res([arr EXCEPT !.kids = Append(@, c)], nid + NodeCount(c), {})
                        : c \in {COMapCopy(e, nid)} })
             : i \in {MatchByName(arr, namePtr, name)} })
  ELSE IF isString(e) /\ ~HasString(arr, e.str)
  THEN Res([arr EXCEPT !.kids = Append(@, COString(nid, e.str))], nid + 1, {})
  ELSE Res(arr, nid, {})

\* the ARRAY case of merge: the loop over the elements of the source array
MergeArray(arr, arrTarget, k, name, acc) ==
  IF k > Len(arrTarget.kids) THEN [acc EXCEPT !.map = arr]
  ELSE The({ MergeArray(r.map, arrTarget, k + 1, name, Then(acc, r))
             : r \in {MergeElement(arr, arrTarget.kids[k],
                                   NameOf(arrTarget.kids[k], name), name, acc.next)} })

\* the body of the loop of merge for one entry ( targetStr, obj ) of the source
\* the new node merge makes when the types differ
MergeNew(obj, nid) ==
  CASE obj.typ = "Integer" -> COInteger(nid, toLongInt(obj), 8)
    [] obj.typ = "Double"  -> CODouble(nid, toLongInt(obj) * DScale)
    [] obj.typ = "String"  -> COString(nid, obj.str)
    [] obj.typ = "Null"    -> CONull(nid)
    [] obj.typ = "Boolean" -> COBoolean(nid, obj.num = 1)
    [] obj.typ = "Map"     -> COMapCopy(obj, nid)

\* the value merge stores when the types agree
MergeSame(myObj, obj) ==
  CASE obj.typ = "Integer" -> [myObj EXCEPT !.num = toLongInt(obj), !.siz = 8]
    [] obj.typ = "Double"  -> [myObj EXCEPT !.num = obj.num]
    [] obj.typ = "String"  -> [myObj EXCEPT !.str = obj.str]
    [] obj.typ = "Null"    -> myObj
    [] obj.typ = "Boolean" -> [myObj EXCEPT !.num = obj.num]

\* the body of the loop of merge for one entry ( targetStr, obj ) of the
\* source, it == the place of targetStr in this
MergeEntry(this, it, targetStr, obj, name, nid) ==
  IF it = 0
  THEN The({ The({ Res(a.map, a.next, a.del)
                   : a \in {append(this, targetStr, c, nid + NodeCount(c))} })
             : c \in {factory(obj, nid)} })
  ELSE IF obj.typ = "Array"
  THEN \* it->second is cast to COArray* without a check of its type
       IF ~isArray(this.kids[it])
       THEN [Res(this, nid, {}) EXCEPT
               !.fault = \E k \in 1..Len(obj.kids) :
                            \/ isString(NameOf(obj.kids[k], name))
                            \/ isString(obj.kids[k])]
       ELSE The({ [r EXCEPT !.map = [this EXCEPT !.kids[it] = r.map]]
                  : r \in {MergeArray(this.kids[it], obj, 1, name, Res(this, nid, {}))} })
  ELSE IF ~isObj(obj) THEN Res(this, nid, {})
  ELSE IF this.kids[it].typ # obj.typ
  THEN The({ MergeReplace(this, it, nw, nid + NodeCount(nw)) : nw \in {MergeNew(obj, nid)} })
  ELSE IF isMap(obj)
  THEN The({ [r EXCEPT !.map = [this EXCEPT !.kids[it] = r.map]]
             : r \in {merge(this.kids[it], obj, name, nid)} })
  ELSE Res([this EXCEPT !.kids[it] = MergeSame(@, obj)], nid, {})

MergeFrom(this, targetObj, ti, name, acc) ==
  IF ti > Len(targetObj.keys) THEN [acc EXCEPT !.map = this]
  ELSE The({ MergeFrom(r.map, targetObj, ti + 1, name, Then(acc, r))
             : r \in {MergeEntry(this, MapFind(this, targetObj.keys[ti]),
                                 targetObj.keys[ti], targetObj.kids[ti], name, acc.next)} })

\* COMap::merge( COMap *targetObj, const char *name ): targetObj is the
\* source whose entries are merged into this
merge(this, targetObj, name, nid) == MergeFrom(this, targetObj, 1, name, Res(this, nid, {}))

RECURSIVE upDate(_, _, _, _)
RECURSIVE UpDateFrom(_, _, _, _, _)
RECURSIVE UpDateEntry(_, _, _, _, _, _)
RECURSIVE UpDateArray(_, _, _, _, _)

\* one element tMap of the source array: a matching element i of arr is
\* replaced by a copy; COArray::replace deletes the old element and upDate
\* deletes it again
UpDateElement(arr, tMap, i, nid) ==
  IF i = 0 THEN Res(arr, nid, {})
  ELSE The({ [Res([arr EXCEPT !.kids[i] = newMap], nid + NodeCount(newMap), Ids(arr.kids[i]))
                EXCEPT !.twice = Ids(arr.kids[i]), !.fault = TRUE]
             : newMap \in {COMapCopy(tMap, nid)} })

\* the ARRAY case of upDate: the loop over the elements of the source array
UpDateArray(arr, arrTarget, k, name, acc) ==
  IF k > Len(arrTarget.kids) THEN [acc EXCEPT !.map = arr]
  ELSE The({ UpDateArray(r.map, arrTarget, k + 1, name, Then(acc, r))
             : r \in {The({ UpDateElement(arr, arrTarget.kids[k],
                                          IF isString(namePtr)
                                          THEN MatchByName(arr, namePtr, name) ELSE 0,
                                          acc.next)
                            : namePtr \in {NameOf(arrTarget.kids[k], name)} })} })

\* the new node upDate makes when the types differ
UpDateNew(obj, nid) ==
  CASE obj.typ = "Integer" -> COInteger(nid, obj.num, 4)
    [] obj.typ = "Double"  -> CODouble(nid, obj.num)
    [] obj.typ = "String"  -> COString(nid, obj.str)
    [] obj.typ = "Boolean" -> COBoolean(nid, obj.num = 1)
    [] obj.typ = "Map"     -> COMapCopy(obj, nid)
    [] obj.typ = "Array"   -> COArrayCopy(obj, nid)
    [] obj.typ = "Null"    -> CONull(nid)

\* the value upDate stores when the types agree
UpDateSame(mine, obj) ==
  CASE obj.typ = "Integer" -> [mine EXCEPT !.num = obj.num, !.siz = 4]
    [] obj.typ = "Double"  -> CODoubleAssign(mine, obj.num)
    [] obj.typ = "String"  -> [mine EXCEPT !.str = obj.str]
    [] obj.typ = "Boolean" -> [mine EXCEPT !.num = obj.num]
    [] obj.typ = "Null"    -> mine

\* the body of the loop of upDate for one entry ( targetStr, obj ) of
\* target, it == the place of targetStr in this
UpDateEntry(this, it, targetStr, obj, name, nid) ==
  IF ~isObj(obj) THEN Res(this, nid, {})
  ELSE IF it = 0
  THEN The({ The({ Res(a.map, a.next, a.del)
                   : a \in {append(this, targetStr, c, nid + NodeCount(c))} })
             : c \in {factory(obj, nid)} })
  ELSE IF this.kids[it].typ # obj.typ
  THEN The({ Res([this EXCEPT !.kids[it] = nw], nid + NodeCount(nw), Ids(this.kids[it]))
             : nw \in {UpDateNew(obj, nid)} })
  ELSE IF isMap(obj)
  THEN The({ [r EXCEPT !.map = [this EXCEPT !.kids[it] = r.map]]
             : r \in {upDate(this.kids[it], obj, name, nid)} })
  ELSE IF isArray(obj)
  THEN The({ [r EXCEPT !.map = [this EXCEPT !.kids[it] = r.map]]
             : r \in {UpDateArray(this.kids[it], obj, 1, name, Res(this, nid, {}))} })
  ELSE Res([this EXCEPT !.kids[it] = UpDateSame(@, obj)], nid, {})

UpDateFrom(this, target, ti, name, acc) ==
  IF ti > Len(target.keys) THEN [acc EXCEPT !.map = this]
  ELSE The({ UpDateFrom(r.map, target, ti + 1, name, Then(acc, r))
             : r \in {UpDateEntry(this, MapFind(this, target.keys[ti]),
                                  target.keys[ti], target.kids[ti], name, acc.next)} })

\* COMap::upDate( COMap *target, const char *name )
upDate(this, target, name, nid) == UpDateFrom(this, target, 1, name, Res(this, nid, {}))

(***************************************************************************)
(* Serializers                                                             *)
(***************************************************************************)
\* the decimal digits of n >= 0
RECURSIVE Digits(_)
Digits(n) ==
  IF n < 10 THEN <<Chr(48 + n)>> ELSE Digits(n \div 10) \o <<Chr(48 + (n % 10))>>

\* printf "%d" and "%ld"
IntText(n) == IF n < 0 THEN <<"-">> \o Digits(0 - n) ELSE Digits(n)

\* the last w decimal digits of n
RECURSIVE ZeroPad(_, _)
ZeroPad(n, w) ==
  IF w = 0 THEN <<>> ELSE ZeroPad(n \div 10, w - 1) \o <<Chr(48 + (n % 10))>>

\* printf "%c" of the low byte b of an integer: nothing for the byte 0
ByteText(b) ==
  IF b = 0 THEN <<>>
  ELSE IF b \in {9, 10, 13} \cup (32..126) THEN <<CHOOSE c \in CharSet : OrdTab[c] = b>>
  ELSE <<CTL>>

\* printf "%.<prec>lf" of a double held in units of 1/DScale
FixedText(d, prec) ==
  (IF d < 0 THEN <<"-">> ELSE <<>>) \o
  (IF prec >= DScaleDigits
   THEN Digits(Abs(d) \div DScale) \o <<".">> \o ZeroPad(Abs(d) % DScale, DScaleDigits)
          \o [i \in 1..(prec - DScaleDigits) |-> "0"]
   ELSE The({ Digits(r \div DScale) \o
              (IF prec = 0 THEN <<>>
               ELSE <<".">> \o ZeroPad((r % DScale) \div Pow10(DScaleDigits - prec), prec))
              : r \in {RoundTo(Abs(d), Pow10(DScaleDigits - prec))} }))

\* a net string written without its length
NetStringBare(str, styp) == <<":">> \o str \o <<styp>>

\* CppON::toNetString( str, styp ): "%d:%s%c"
NetString(str, styp) == IntText(Len(str)) \o <<":">> \o str \o <<styp>>

COIntegerText(n) ==
  CASE n.siz = 1 -> ByteText(n.num % 256)
    [] n.siz \in {2, 4, 8} -> IntText(n.num)
    [] OTHER -> <<>>

COIntegerToNetString(n) == NetString(COIntegerText(n), "#")

COIntegerToJsonString(n) == COIntegerText(n)

CODoubleToNetString(n) == NetString(FixedText(n.num, 10), "^")

CODoubleToJsonString(n) ==
  IF n.prec < 0 \/ n.prec > 16 THEN FixedText(n.num, 10) ELSE FixedText(n.num, n.prec)

BoolText(n) == IF n.num # 0 THEN <<"t", "r", "u", "e">> ELSE <<"f", "a", "l", "s", "e">>

COBooleanToNetString(n) == NetString(BoolText(n), "!")

COBooleanToJsonString(n) == BoolText(n)

CONullToNetString == <<"0", ":", "~">>

CONullToJsonString == <<"n", "u", "l", "l">>

COStringToNetString(n) == NetString(n.str, ",")

\* the replacement COString::toJsonString writes for one character
JsonEscape(ch) ==
  CASE ch = "\"" -> <<"%", "2", "2">>
    [] ch = "{"  -> <<"%", "7", "B">>
    [] ch = "}"  -> <<"%", "7", "D">>
    [] ch = "<"  -> <<"%", "3", "C">>
    [] ch = ">"  -> <<"%", "3", "E">>
    [] ch = "\\" -> <<"%", "5", "C">>
    [] ch = "'"  -> <<"%", "6", "0">>
    [] ch = "^"  -> <<"%", "5", "E">>
    [] ch = "&"  -> <<"%", "2", "6">>
    [] ch = "\r" -> <<"%", "0", "D">>
    [] ch = "\n" -> <<"%", "0", "A">>
    [] ch = "\t" -> <<" ">>
    [] OTHER     -> <<ch>>

RECURSIVE JsonEscapeAll(_)
JsonEscapeAll(st) ==
  IF st = <<>> THEN <<>> ELSE JsonEscape(st[1]) \o JsonEscapeAll(Tail(st))

COStringToJsonString(n) == <<"\"">> \o JsonEscapeAll(n.str) \o <<"\"">>

\* the child stored under the k-th key of the order list
OrderedKid(n, k) == n.kids[MapFind(n, n.order[k])]

RECURSIVE toNetString(_), COMapNetFrom(_, _), COArrayNetFrom(_, _)
\* COMap::toNetString: the entries in insertion order, each the key as a
\* net string followed by the value
COMapNetFrom(n, k) ==
  IF k > Len(n.order) THEN <<>>
  ELSE NetString(n.order[k], ",") \o toNetString(OrderedKid(n, k)) \o COMapNetFrom(n, k + 1)

\* COArray::toNetString: a Null element is dropped
COArrayNetFrom(n, i) ==
  IF i > Len(n.kids) THEN <<>>
  ELSE (IF n.kids[i].typ = "Null" THEN <<>> ELSE toNetString(n.kids[i]))
         \o COArrayNetFrom(n, i + 1)

toNetString(n) ==
  CASE n.typ = "Integer" -> COIntegerToNetString(n)
    [] n.typ = "Double"  -> CODoubleToNetString(n)
    [] n.typ = "String"  -> COStringToNetString(n)
    [] n.typ = "Boolean" -> COBooleanToNetString(n)
    [] n.typ = "Null"    -> CONullToNetString
    [] n.typ = "Map"     -> NetString(COMapNetFrom(n, 1), "}")
    [] n.typ = "Array"   -> NetString(COArrayNetFrom(n, 1), "]")
    [] OTHER             -> <<>>

\* the indentation one level deeper
NewIndent(indent) == indent \o <<" ", " ">>

RECURSIVE toJsonStringAt(_, _), COMapJsonFrom(_, _, _), COArrayJsonFrom(_, _, _)
\* COMap::toJsonString( indent ): the entries in insertion order, one to a
\* line; a container value starts on a line of its own
COMapJsonFrom(n, k, newIndent) ==
  IF k > Len(n.order) THEN <<>>
  ELSE (IF k = 1 THEN <<>> ELSE <<",", "\n">>)
         \o newIndent \o <<"\"">> \o n.order[k] \o <<"\"", ":", " ">>
         \o (IF OrderedKid(n, k).typ \in {"Map", "Array"} THEN <<"\n">> ELSE <<>>)
         \o toJsonStringAt(OrderedKid(n, k), newIndent)
         \o COMapJsonFrom(n, k + 1, newIndent)

\* COArray::toJsonString( indent ): a Null element leaves its line empty
COArrayJsonFrom(n, i, newIndent) ==
  IF i > Len(n.kids) THEN <<>>
  ELSE (IF i = 1 THEN <<>> ELSE <<",", "\n">>)
         \o newIndent
         \o (IF n.kids[i].typ = "Null" THEN <<>> ELSE toJsonStringAt(n.kids[i], newIndent))
         \o COArrayJsonFrom(n, i + 1, newIndent)

toJsonStringAt(n, indent) ==
  CASE n.typ = "Integer" -> COIntegerToJsonString(n)
    [] n.typ = "Double"  -> CODoubleToJsonString(n)
    [] n.typ = "String"  -> COStringToJsonString(n)
    [] n.typ = "Boolean" -> COBooleanToJsonString(n)
    [] n.typ = "Null"    -> CONullToJsonString
    [] n.typ = "Map"     ->
         indent \o <<"{", "\n">> \o COMapJsonFrom(n, 1, NewIndent(indent))
           \o <<"\n">> \o indent \o <<"}">>
    [] n.typ = "Array"   ->
         indent \o <<"[", "\n">> \o COArrayJsonFrom(n, 1, NewIndent(indent))
           \o <<"\n">> \o indent \o <<"]">>
    [] OTHER             -> <<>>

\* toJsonString(): the indentation starts empty
toJsonString(n) == toJsonStringAt(n, <<>>)

(***************************************************************************)
(* Parsers                                                                 *)
(* A parser yields the node it built (NoNode for NULL) and the position    *)
(* it leaves the text pointer at; exit: it ended the process with          *)
(* exit( 0 ); fault: it read beyond the terminating NUL of the text.  The  *)
(* nodes a parser allocates carry the identity 0.                          *)
(***************************************************************************)
PR(obj, pos) == [obj |-> obj, pos |-> pos, exit |-> FALSE, fault |-> FALSE]

Exited(pos) == [obj |-> NoNode, pos |-> pos, exit |-> TRUE, fault |-> FALSE]

Also(r, f) == [r EXCEPT !.fault = @ \/ f]

\* the position p is beyond the terminating NUL of s
Beyond(s, p) == p > Len(s) + 1

\* DumpWhiteSpace: blank, tab, line feed and the letter r are skipped
RECURSIVE DumpWhiteSpace(_, _)
DumpWhiteSpace(s, p) ==
  IF At(s, p) \in {" ", "\t", "\n", "r"} THEN DumpWhiteSpace(s, p + 1) ELSE p

\* strncasecmp( &s[p-1], w, strlen( w ) ) == 0
Starts(s, p, w) == \A i \in 1..Len(w) : ToLower(At(s, p + i - 1)) = w[i]

\* the value of a digit in the bases up to 16, 99 for any other character
HexVal(c) ==
  IF IsDigit(c) THEN DigitVal(c)
  ELSE IF ToLower(c) \in {"a", "b", "c", "d", "e", "f"} THEN Ord(ToLower(c)) - 87
  ELSE 99

RECURSIVE CountBase(_, _, _)
CountBase(s, p, base) ==
  IF HexVal(At(s, p)) < base THEN 1 + CountBase(s, p + 1, base) ELSE 0

RECURSIVE BaseValue(_, _, _, _)
BaseValue(s, p, n, base) ==
  IF n = 0 THEN 0 ELSE BaseValue(s, p, n - 1, base) * base + HexVal(s[p + n - 1])

\* where the digits of a number at d start and in which base strtoll reads
\* them: base 0 takes 0x as hexadecimal and a leading 0 as octal
Radix(s, d, base) ==
  IF base \in {0, 16} /\ At(s, d) = "0" /\ ToLower(At(s, d + 1)) = "x"
       /\ HexVal(At(s, d + 2)) < 16
  THEN [at |-> d + 2, base |-> 16]
  ELSE IF base = 0 THEN [at |-> d, base |-> IF At(s, d) = "0" THEN 8 ELSE 10]
  ELSE [at |-> d, base |-> base]

\* strtoll( &s[p-1], &end, base ): with no digits the value is 0 and end is p
strtoll(s, p, base) ==
  The({ The({ The({
    IF n = 0 THEN [val |-> 0, end |-> p]
    ELSE [val |-> IF At(s, q) = "-"
                  THEN 0 - BaseValue(s, rx.at, n, rx.base)
                  ELSE BaseValue(s, rx.at, n, rx.base),
          end |-> rx.at + n]
    : n \in {CountBase(s, rx.at, rx.base)} })
    : rx \in {Radix(s, SignEnd(s, q), base)} })
    : q \in {SkipSpace(s, p)} })

\* the fraction digits at f, n of them, in units of 1/DScale: the digits
\* after the first DScaleDigits are dropped
FracValue(s, f, n) ==
  IF n >= DScaleDigits THEN DecValue(s, f, DScaleDigits)
  ELSE DecValue(s, f, n) * Pow10(DScaleDigits - n)

\* strtod( &s[p-1], &end ) of a number written without an exponent: d is
\* the position after the sign, ni and nf count the digits before and after
\* the point
strtodAt(s, p, neg, d, ni, nf) ==
  IF ni + nf = 0 THEN [val |-> 0, end |-> p]
  ELSE The({ [val |-> IF neg THEN 0 - v ELSE v,
              end |-> IF At(s, d + ni) = "." THEN d + ni + 1 + nf ELSE d + ni]
             : v \in {DecValue(s, d, ni) * DScale + FracValue(s, d + ni + 1, nf)} })

strtodFrom(s, p, q, d) ==
  The({ strtodAt(s, p, At(s, q) = "-", d, ni,
                 IF At(s, d + ni) = "." THEN CountDigits(s, d + ni + 1) ELSE 0)
        : ni \in {CountDigits(s, d)} })

strtod(s, p) == The({ strtodFrom(s, p, q, SignEnd(s, q)) : q \in {SkipSpace(s, p)} })

\* the first position from p on that holds a quote or the terminating NUL
RECURSIVE FindQuote(_, _)
FindQuote(s, p) == IF At(s, p) \in {"\"", NUL} THEN p ELSE FindQuote(s, p + 1)

\* the characters of a quoted string from p on and the position n they end
\* at: a backslash takes the next character as it is
RECURSIVE Quoted(_, _, _)
Quoted(s, p, acum) ==
  IF At(s, p) \in {"\"", NUL} THEN [str |-> acum, n |-> p]
  ELSE IF At(s, p) = "\\" THEN Quoted(s, p + 2, Append(acum, At(s, p + 1)))
  ELSE Quoted(s, p + 1, Append(acum, At(s, p)))

\* std::string::c_str() read as a C string: the bytes before the first NUL
CStr(st) == IF IndexOf(st, NUL) = 0 THEN st ELSE SubSeq(st, 1, IndexOf(st, NUL) - 1)

\* *str = &s[pos-1]; DumpWhiteSpace( ch, str ) at the end of GetObj
Leave(s, obj, pos) == Also(PR(obj, DumpWhiteSpace(s, pos)), Beyond(s, pos))

\* the end of a container in GetObj: l holds the container, NoNode once it
\* failed, and nc
Finish(s, l) == IF l.exit THEN l ELSE Also(Leave(s, l.obj, l.pos + 1), l.fault)

RECURSIVE GetObj(_, _), GetTNetstring(_, _), GetValue(_, _)
RECURSIVE GetObjMap(_, _, _, _), GetObjArray(_, _, _, _), TNetMap(_, _, _), TNetArray(_, _, _)

\* a text that starts with digits and a colon is read as a net string,
\* any other by GetObj
GetValue(s, p) ==
  IF At(s, p + CountDigits(s, p)) = ":" THEN GetTNetstring(s, p) ELSE GetObj(s, p)

\* GetObj, map: what follows the value r of the entry name
GetObjMapNext(s, r, c, mp) ==
  IF At(s, c) = "," THEN Also(GetObjMap(s, c + 1, ",", mp), r.fault)
  ELSE IF At(s, c) # NUL /\ At(s, c) # "}" THEN Also(PR(NoNode, c), r.fault)
  ELSE Also(GetObjMap(s, c, At(s, c), mp), r.fault)

GetObjMapValue(s, name, r, mp) ==
  IF r.exit THEN r
  ELSE IF r.obj = NoNode THEN r
  ELSE GetObjMapNext(s, r, DumpWhiteSpace(s, r.pos), append(mp, name, r.obj, 0).map)

\* GetObj, map: the entry whose name lies between the quotes at q and e
GetObjMapEntry(s, q, e, c, mp) ==
  IF At(s, c) # ":" THEN PR(NoNode, c)
  ELSE GetObjMapValue(s, SubSeq(s, q + 1, e - 1),
                      GetValue(s, DumpWhiteSpace(s, c + 1)), mp)

GetObjMapName(s, q, e, mp) ==
  IF At(s, e) = NUL THEN PR(NoNode, q + 1)
  ELSE GetObjMapEntry(s, q, e, DumpWhiteSpace(s, e + 1), mp)

GetObjMapQuote(s, q, mp) ==
  IF At(s, q) = NUL THEN PR(NoNode, q + 1)
  ELSE GetObjMapName(s, q, FindQuote(s, q + 1), mp)

\* GetObj, map: while( ! fail && 0 != ch && '}' != ch )
GetObjMap(s, nc, ch, mp) ==
  IF ch = NUL \/ ch = "}" THEN PR(mp, nc)
  ELSE GetObjMapQuote(s, FindQuote(s, DumpWhiteSpace(s, nc)), mp)

\* GetObj, array: what follows the element r; the element is appended
GetObjArrayNext(s, r, c, arr) ==
  IF At(s, c) = "," THEN Also(GetObjArray(s, c + 1, ",", arr), r.fault)
  ELSE IF At(s, c) # NUL /\ At(s, c) # "]" THEN Also(PR(NoNode, c), r.fault)
  ELSE Also(GetObjArray(s, c, At(s, c), arr), r.fault)

GetObjArrayValue(s, r, arr) ==
  IF r.exit THEN r
  ELSE IF r.obj = NoNode THEN r
  ELSE GetObjArrayNext(s, r, DumpWhiteSpace(s, r.pos),
                       [arr EXCEPT !.kids = Append(@, r.obj)])

\* GetObj, array: while( ! fail && 0 != ch && ']' != ch )
GetObjArray(s, nc, ch, arr) ==
  IF ch = NUL \/ ch = "]" THEN PR(arr, nc)
  ELSE GetObjArrayValue(s, GetValue(s, nc), arr)

\* GetObj, string: q holds the characters and the position they end at
GetObjString(s, q) == Leave(s, COString(0, CStr(q.str)), q.n + 1)

\* GetObj, number: n is the position after the sign, the text is searched
\* for a point up to the next NUL, comma or closing brace
RECURSIVE FindDot(_, _)
FindDot(s, p) ==
  IF At(s, p) \in {NUL, ",", "}"} THEN FALSE
  ELSE IF At(s, p) = "." THEN TRUE
  ELSE FindDot(s, p + 1)

GetObjInteger(s, neg, r) ==
  Leave(s, COInteger(0, IF neg THEN 0 - r.val ELSE r.val, 8), r.end)

GetObjDouble(s, neg, r) ==
  Leave(s, CODouble(0, IF neg THEN 0 - r.val ELSE r.val), r.end)

GetObjNumber(s, p, ch, nc) ==
  IF ~FindDot(s, nc)
  THEN GetObjInteger(s, ch = "-",
                     strtoll(s, nc - 1, IF ch = "0" /\ At(s, nc) = "x" THEN 16 ELSE 10))
  ELSE GetObjDouble(s, ch = "-", strtod(s, nc - 1))

\* GetObj at the position p the white space ends at
GetObjAt(s, p, ch) ==
  CASE ch = "{" ->
         Finish(s, GetObjMap(s, DumpWhiteSpace(s, p + 1),
                             At(s, DumpWhiteSpace(s, p + 1)), COMap(0)))
    [] ch = "[" -> Finish(s, GetObjArray(s, DumpWhiteSpace(s, p + 1), "[", COArray(0)))
    [] ch = "\"" -> GetObjString(s, Quoted(s, p + 1, <<>>))
    [] ch \in {"t", "T"} /\ Starts(s, p + 1, <<"r", "u", "e">>) /\ At(s, p + 4) # ch ->
         Leave(s, COBoolean(0, TRUE), p + 4)
    [] ch \in {"f", "F"} /\ Starts(s, p + 1, <<"a", "l", "s", "e">>) /\ At(s, p + 5) # ch ->
         Leave(s, COBoolean(0, FALSE), p + 5)
    [] IsDigit(ch) \/ ch \in {"-", "+"} ->
         GetObjNumber(s, p, ch, IF IsDigit(ch) THEN p + 1 ELSE p + 2)
    [] OTHER -> Exited(p)

GetObj(s, p) == GetObjAt(s, DumpWhiteSpace(s, p), At(s, DumpWhiteSpace(s, p)))

\* GetTNetstring, map: the value of the entry name, read at c
TNetMapValue(b, name, val, base) ==
  IF val.exit THEN val
  ELSE IF isObj(val.obj)
    THEN Also(TNetMap(b, val.pos, append(base, name.obj.str, val.obj, 0).map),
              name.fault \/ val.fault)
  ELSE Also(PR(NoNode, val.pos), name.fault \/ val.fault)

TNetMapName(b, name, c, base) ==
  IF name.exit THEN name
  ELSE IF At(b, c) # NUL /\ isString(name.obj) THEN TNetMapValue(b, name, GetValue(b, c), base)
  ELSE Also(PR(NoNode, c), name.fault \/ Beyond(b, c))

TNetMapEntry(b, name, base) == TNetMapName(b, name, DumpWhiteSpace(b, name.pos), base)

\* GetTNetstring, map: while( *cptr ) over the copy b of the payload
TNetMap(b, c, base) ==
  IF At(b, c) = NUL THEN Also(PR(base, c), Beyond(b, c))
  ELSE TNetMapEntry(b, GetValue(b, DumpWhiteSpace(b, c)), base)

\* GetTNetstring, array: what follows the element e, which is appended
\* even when it is NULL
TNetArraySep(b, e, c, base) ==
  IF At(b, c) = "," THEN Also(TNetArray(b, c + 1, base), e.fault)
  ELSE IF ~IsDigit(At(b, c)) THEN Also(PR(NoNode, c), e.fault)
  ELSE Also(TNetArray(b, c, base), e.fault)

TNetArrayNext(b, e, base) ==
  IF e.exit THEN e
  ELSE IF At(b, e.pos) = NUL THEN Also(TNetArray(b, e.pos, base), e.fault)
  ELSE TNetArraySep(b, e, DumpWhiteSpace(b, e.pos), base)

TNetArrayElement(b, e, base) ==
  TNetArrayNext(b, e, [base EXCEPT !.kids = Append(@, e.obj)])

\* GetTNetstring, array: while( *cptr ) over the copy b of the payload
TNetArray(b, c, base) ==
  IF At(b, c) = NUL THEN Also(PR(base, c), Beyond(b, c))
  ELSE TNetArrayElement(b, GetValue(b, DumpWhiteSpace(b, c)), base)

\* GetTNetstring: the payload of len bytes starts at b, typ is the byte
\* that follows it
TNetPayload(s, b, len, typ) ==
  CASE typ = "," -> PR(COStringStd(0, SubSeq(s, b, b + len - 1)), 0)
    [] typ = "#" -> PR(COInteger(0, strtoll(s, b, 0).val, 8), 0)
    [] typ = "^" -> PR(CODouble(0, strtod(s, b).val), 0)
    [] typ = "!" ->
         IF Starts(s, b, <<"t", "r", "u", "e">>) THEN PR(COBoolean(0, TRUE), 0)
         ELSE IF Starts(s, b, <<"f", "a", "l", "s", "e">>) THEN PR(COBoolean(0, TRUE), 0)
         ELSE PR(NoNode, 0)
    [] typ = "~" -> PR(CONull(0), 0)
    [] typ = "}" -> TNetMap(SubSeq(s, b, b + len - 1), 1, COMap(0))
    [] typ = "]" -> TNetArray(SubSeq(s, b, b + len - 1), 1, COArray(0))
    [] OTHER -> PR(NoNode, 0)

\* *str += len + 1
TNetLeave(r, pos) == IF r.exit THEN r ELSE [r EXCEPT !.pos = pos]

\* GetTNetstring after the length num: q is where the white space after it
\* ends; a length that reaches beyond the terminating NUL reads outside the
\* text
TNetAt(s, num, q) ==
  IF At(s, q) # ":" THEN PR(NoNode, q + 1)
  ELSE IF num.val < 0 \/ Beyond(s, q + 1 + num.val)
    THEN Also(PR(NoNode, q + 1), TRUE)
  ELSE TNetLeave(TNetPayload(s, q + 1, num.val, At(s, q + 1 + num.val)), q + num.val + 2)

TNetLength(s, num) == TNetAt(s, num, SkipSpace(s, num.end))

GetTNetstring(s, p) == TNetLength(s, strtol(s, p))

\* parseJson( const char *str ): white space is skipped, a text that starts
\* with a digit is read as a net string, any other by GetObj, an empty one
\* yields NULL
parseJsonAt(s, q) ==
  IF IsDigit(At(s, q)) THEN GetTNetstring(s, q)
  ELSE IF At(s, q) # NUL THEN GetObj(s, q)
  ELSE PR(NoNode, q)

parseJson(s) == parseJsonAt(s, SkipSpace(s, 1))

\* the outcome of COMap::doParse: the map, diag: a diagnostic was printed
\* to stderr, exit and fault as for the parsers
DP(map, diag) == [map |-> map, diag |-> diag, exit |-> FALSE, fault |-> FALSE]

WithDiag(r) == [r EXCEPT !.diag = TRUE]

RECURSIVE doParseLoop(_, _, _)

\* doParse: what follows the value r, which has been appended
doParseNext(this, s, r, c) ==
  IF At(s, c) = NUL THEN Also(DP(this, FALSE), r.fault \/ Beyond(s, c))
  ELSE IF At(s, c) = "," THEN Also(doParseLoop(this, s, DumpWhiteSpace(s, c + 1)), r.fault)
  ELSE IF At(s, c) = "}" THEN Also(DP(this, FALSE), r.fault)
  ELSE Also(DP(this, TRUE), r.fault)

\* doParse: a value that is NULL is reported and the loop goes on
doParseObj(this, s, name, r) ==
  IF r.exit THEN [map |-> this, diag |-> FALSE, exit |-> TRUE, fault |-> r.fault]
  ELSE IF r.obj = NoNode THEN WithDiag(Also(doParseLoop(this, s, r.pos), r.fault))
  ELSE doParseNext(append(this, name, r.obj, 0).map, s, r, DumpWhiteSpace(s, r.pos))

\* doParse: a value that starts with a digit is read as a net string
doParseValue(this, s, name, v) ==
  IF At(s, v) = NUL THEN DP(this, TRUE)
  ELSE doParseObj(this, s, name,
                  IF IsDigit(At(s, v)) THEN GetTNetstring(s, v) ELSE GetObj(s, v))

doParseColon(this, s, name, c) ==
  IF At(s, c) # ":" THEN DP(this, TRUE)
  ELSE doParseValue(this, s, name, SkipSpace(s, DumpWhiteSpace(s, c + 1)))

\* doParse: the name between the quote at p and the one at e
doParseName(this, s, p, e) ==
  IF At(s, e) = NUL THEN DP(this, TRUE)
  ELSE doParseColon(this, s, SubSeq(s, p + 1, e - 1), DumpWhiteSpace(s, e + 1))

\* doParse: while( *str ), one entry each turn
doParseLoop(this, s, p) ==
  IF At(s, p) = NUL THEN Also(DP(this, FALSE), Beyond(s, p))
  ELSE IF At(s, p) # "\"" THEN DP(this, TRUE)
  ELSE doParseName(this, s, p, FindQuote(s, p + 1))

doParseAt(this, s, p) ==
  IF At(s, p) = "{" THEN doParseLoop(this, s, DumpWhiteSpace(s, p + 1)) ELSE DP(this, TRUE)

doParse(this, s) == doParseAt(this, s, DumpWhiteSpace(s, 1))

\* COMap::COMap( const char *str ): parseData( str ) is doParse( str )
COMapFromText(nid, s) == doParse(COMap(nid), s)

\* COMap::operator=( const char *str ): the table and the order list are
\* cleared, the children are not deleted, then doParse( str )
COMapAssignText(this, s) ==
  doParse([this EXCEPT !.keys = <<>>, !.kids = <<>>, !.order = <<>>], s)

(***************************************************************************)
(* The line parsers parseCSV and parseTSV                                  *)
(* s is the content of the file the parser opened.                         *)
(***************************************************************************)
\* line->append( new COString( s ) )
WithField(line, field) == [line EXCEPT !.kids = Append(@, COStringStd(0, field))]

\* the loop over fgetc: field is the std::string s, line the array of the
\* line being read, rtn the array of the lines ended by a line feed; at EOF
\* the line being read is deleted
RECURSIVE ParseLines(_, _, _, _, _, _)
ParseLines(s, p, field, line, rtn, sep) ==
  IF p > Len(s) THEN rtn
  ELSE IF s[p] = "\n"
    THEN ParseLines(s, p + 1, <<>>, COArray(0),
                    [rtn EXCEPT !.kids = Append(@, WithField(line, field))], sep)
  ELSE IF s[p] = sep
    THEN ParseLines(s, p + 1, <<>>, WithField(line, field), rtn, sep)
  ELSE IF 31 <= Ord(s[p]) /\ 127 > Ord(s[p])
    THEN ParseLines(s, p + 1, Append(field, s[p]), line, rtn, sep)
  ELSE ParseLines(s, p + 1, field, line, rtn, sep)

\* CppON::parseCSV( const char *str ) for a file that opens
parseCSV(s) == ParseLines(s, 1, <<>>, COArray(0), COArray(0), ",")

\* CppON::parseTSV( const char *str ) for a file that opens
parseTSV(s) == ParseLines(s, 1, <<>>, COArray(0), COArray(0), "\t")

(***************************************************************************)
(* diff                                                                    *)
(* Results carry the node made (rtn, NoNode for NULL), the next free       *)
(* identity and fault: the call used a node as a type it is not.  A name   *)
(* that is the NULL pointer is written as the empty string.                *)
(***************************************************************************)
DR(rtn, next) == [rtn |-> rtn, next |-> next, fault |-> FALSE]

\* the cast of a node to a class it is not
BadCast(rtn, next) == [rtn |-> rtn, next |-> next, fault |-> TRUE]

\* rtn->append( name, c ) for the node c just made
Tagged(rtn, name, c) ==
  DR(append(rtn, name, c, c.id + NodeCount(c)).map, c.id + NodeCount(c))

\* the append is made only when the values differ
TagIf(differs, rtn, name, c) == IF differs THEN Tagged(rtn, name, c) ELSE DR(rtn, c.id)

\* the bool appendTag reads from a string: true, false or a number
StringTruth(st) ==
  IF strcasecmp(st, <<"t", "r", "u", "e">>) = 0 THEN TRUE
  ELSE IF strcasecmp(st, <<"f", "a", "l", "s", "e">>) = 0 THEN FALSE
  ELSE strtol(st, 1).val # 0

\* appendTag for an old value n that is a Boolean: the new value obj is
\* promoted to a Boolean
TagBoolean(name, obj, rtn, n, nid) ==
  CASE obj.typ = "Boolean" -> TagIf(n.num # obj.num, rtn, name, COBoolean(nid, obj.num = 1))
    [] obj.typ = "Integer" ->
         TagIf((n.num = 1) # (obj.num # 0), rtn, name, COBoolean(nid, obj.num # 0))
    [] obj.typ = "Double"  ->
         TagIf((n.num = 1) # (Trunc(obj.num) # 0), rtn, name, COBoolean(nid, Trunc(obj.num) # 0))
    [] obj.typ = "String"  ->
         TagIf((n.num = 1) # StringTruth(obj.str), rtn, name, COBoolean(nid, StringTruth(obj.str)))
    [] obj.typ = "Null"    -> Tagged(rtn, name, CONull(nid))
    [] OTHER               -> DR(rtn, nid)

\* appendTag for an old value n that is a Double
TagDouble(name, obj, rtn, n, nid) ==
  CASE obj.typ = "Double"  -> TagIf(n.num # obj.num, rtn, name, factory(obj, nid))
    [] obj.typ = "Integer" ->
         TagIf(n.num # obj.num * DScale, rtn, name, CODouble(nid, obj.num * DScale))
    [] obj.typ = "String"  ->
         TagIf(n.num # strtod(obj.str, 1).val, rtn, name, CODouble(nid, strtod(obj.str, 1).val))
    [] obj.typ = "Boolean" -> Tagged(rtn, name, factory(obj, nid))
    [] obj.typ = "Null"    -> Tagged(rtn, name, CONull(nid))
    [] OTHER               -> DR(rtn, nid)

\* appendTag for an old value n that is an Integer
TagInteger(name, obj, rtn, n, nid) ==
  CASE obj.typ = "Integer" -> TagIf(toLongInt(n) # toLongInt(obj), rtn, name, factory(obj, nid))
    [] obj.typ = "String"  ->
         TagIf(toLongInt(n) # strtoll(obj.str, 1, 0).val, rtn, name,
               COUInteger(nid, strtoll(obj.str, 1, 0).val, 8))
    [] obj.typ = "Double"  -> Tagged(rtn, name, factory(obj, nid))
    [] obj.typ = "Boolean" -> Tagged(rtn, name, factory(obj, nid))
    [] obj.typ = "Null"    -> Tagged(rtn, name, CONull(nid))
    [] OTHER               -> DR(rtn, nid)

\* appendTag for an old value n that is a String or a Null: n is cast to
\* the class of obj whatever it is
TagOther(name, obj, rtn, n, nid) ==
  CASE obj.typ \in {"Integer", "Double", "Boolean"} -> BadCast(rtn, nid)
    [] obj.typ = "Null"   -> TagIf(n.typ # "Null", rtn, name, CONull(nid))
    [] obj.typ = "String" ->
         IF isString(n) THEN TagIf(n.str # obj.str, rtn, name, factory(obj, nid))
         ELSE BadCast(rtn, nid)
    [] OTHER              -> DR(rtn, nid)

\* appendTag( name, obj, rtn, n ): the entry name of the old map holds the
\* scalar n, the new map holds obj there
appendTag(name, obj, rtn, n, nid) ==
  IF isMap(obj) \/ isArray(obj) THEN Tagged(rtn, name, factory(obj, nid))
  ELSE CASE n.typ = "Boolean" -> TagBoolean(name, obj, rtn, n, nid)
         [] n.typ = "Double"  -> TagDouble(name, obj, rtn, n, nid)
         [] n.typ = "Integer" -> TagInteger(name, obj, rtn, n, nid)
         [] OTHER             -> TagOther(name, obj, rtn, n, nid)

RECURSIVE COMapDiff(_, _, _, _)
RECURSIVE COArrayDiff(_, _, _, _)

\* a diff that appended nothing is deleted and NULL is returned
DiffReturn(r) == IF Len(r.rtn.kids) = 0 THEN [r EXCEPT !.rtn = NoNode] ELSE r

\* the diff nv of a container held under key is appended unless it is NULL
DiffNested(acc, key, nv) ==
  [rtn   |-> IF isObj(nv.rtn) THEN append(acc.rtn, key, nv.rtn, nv.next).map ELSE acc.rtn,
   next  |-> nv.next,
   fault |-> acc.fault \/ nv.fault]

\* the first loop of COMap::diff for the entry i of this, obj being what
\* newObj.findElement( key ) found; obj is cast to the class of the entry
\* without a check of its type
DiffEntry(this, i, obj, name, acc) ==
  IF ~isObj(obj) THEN acc
  ELSE IF isMap(this.kids[i])
  THEN IF ~isMap(obj) THEN [acc EXCEPT !.fault = TRUE]
       ELSE DiffNested(acc, this.keys[i], COMapDiff(this.kids[i], obj, name, acc.next))
  ELSE IF isArray(this.kids[i])
  THEN IF ~isArray(obj) THEN [acc EXCEPT !.fault = TRUE]
       ELSE DiffNested(acc, this.keys[i], COArrayDiff(this.kids[i], obj, name, acc.next))
  ELSE The({ [r EXCEPT !.fault = @ \/ acc.fault]
             : r \in {appendTag(this.keys[i], obj, acc.rtn, this.kids[i], acc.next)} })

RECURSIVE DiffOld(_, _, _, _, _)
DiffOld(this, newObj, name, i, acc) ==
  IF i > Len(this.keys) THEN acc
  ELSE DiffOld(this, newObj, name, i + 1,
               DiffEntry(this, i, Deref(newObj, findElement(newObj, this.keys[i])), name, acc))

\* the second loop of COMap::diff: the entries of newObj that
\* this->findElement( key ) does not find are copied
RECURSIVE DiffNew(_, _, _, _)
DiffNew(this, newObj, j, acc) ==
  IF j > Len(newObj.keys) THEN acc
  ELSE DiffNew(this, newObj, j + 1,
               IF findElement(this, newObj.keys[j]).ok THEN acc
               ELSE The({ [r EXCEPT !.fault = acc.fault]
                          : r \in {Tagged(acc.rtn, newObj.keys[j],
                                          factory(newObj.kids[j], acc.next))} }))

\* COMap::diff( COMap &newObj, const char *name )
COMapDiff(this, newObj, name, nid) ==
  DiffReturn(DiffNew(this, newObj, 1, DiffOld(this, newObj, name, 1, DR(COMap(nid), nid + 1))))

\* the state of the loop of COArray::diff: it is the place the iterator of
\* the old array stands at, one beyond the last element for end()
AR(rtn, next, fault, it) == [rtn |-> rtn, next |-> next, fault |-> fault, it |-> it]

\* rtn->append( c ) for an element copied from the new array
Pushed(acc, c, it) ==
  AR([acc.rtn EXCEPT !.kids = Append(@, c)], c.id + NodeCount(c), acc.fault, it)

\* the old element n carries the name uS
SameName(n, uS, name) ==
  \E vS \in {NameOf(n, name)} : isString(vS) /\ strcmp(uS.str, vS.str) = 0

\* the inner loop for a new element obj that is a map named uS: the first
\* old element of that name whose diff is not NULL ends the loop, and obj
\* is copied whole
RECURSIVE DiffNamed(_, _, _, _, _, _)
DiffNamedAt(this, obj, uS, name, it, acc, nv) ==
  IF isObj(nv.rtn)
  THEN Pushed([acc EXCEPT !.fault = @ \/ nv.fault], COMapCopy(obj, nv.next), it)
  ELSE DiffNamed(this, obj, uS, name, it + 1,
                 [acc EXCEPT !.next = nv.next, !.fault = @ \/ nv.fault])

DiffNamed(this, obj, uS, name, it, acc) ==
  IF it > Len(this.kids) THEN [acc EXCEPT !.it = it]
  ELSE IF SameName(this.kids[it], uS, name)
  THEN DiffNamedAt(this, obj, uS, name, it, acc,
                   COMapDiff(this.kids[it], obj, name, acc.next))
  ELSE DiffNamed(this, obj, uS, name, it + 1, acc)

\* a container of the new array is copied whole when its diff nv against
\* the old one is not NULL
DiffWhole(obj, acc, nv) ==
  IF isObj(nv.rtn)
  THEN Pushed([acc EXCEPT !.fault = @ \/ nv.fault], factory(obj, nv.next), acc.it + 1)
  ELSE AR(acc.rtn, nv.next, acc.fault \/ nv.fault, acc.it + 1)

\* the new element obj against the old element n the iterator stands at:
\* compared only when of one type, with no name for the nested diff
DiffAt(n, obj, acc) ==
  IF obj.typ # n.typ \/ obj.typ = "Null" THEN [acc EXCEPT !.it = @ + 1]
  ELSE IF isMap(obj) THEN DiffWhole(obj, acc, COMapDiff(n, obj, <<>>, acc.next))
  ELSE IF isArray(obj) THEN DiffWhole(obj, acc, COArrayDiff(n, obj, <<>>, acc.next))
  ELSE IF ~Equals(n, obj) THEN Pushed(acc, factory(obj, acc.next), acc.it + 1)
  ELSE [acc EXCEPT !.it = @ + 1]

\* one element obj of the new array
DiffElement(this, obj, name, acc) ==
  IF isMap(obj) /\ name # <<>> /\ isString(NameOf(obj, name))
  THEN DiffNamed(this, obj, NameOf(obj, name), name, 1, acc)
  ELSE IF acc.it <= Len(this.kids) THEN DiffAt(this.kids[acc.it], obj, acc)
  ELSE acc

RECURSIVE DiffElements(_, _, _, _, _)
DiffElements(this, newObj, name, k, acc) ==
  IF k > Len(newObj.kids) THEN acc
  ELSE DiffElements(this, newObj, name, k + 1, DiffElement(this, newObj.kids[k], name, acc))

\* COArray::diff( COArray &newObj, const char *name )
COArrayDiff(this, newObj, name, nid) ==
  The({ DiffReturn([rtn |-> r.rtn, next |-> r.next, fault |-> r.fault])
        : r \in {DiffElements(this, newObj, name, 1, AR(COArray(nid), nid + 1, FALSE, 1))} })

\* CppON::diff( CppON &newObj, const char *name )
diff(this, newObj, name, nid) ==
  IF this.typ # newObj.typ THEN DR(NoNode, nid)
  ELSE CASE this.typ \in {"Integer", "Double", "Boolean"} ->
              IF ~Equals(this, newObj) THEN DR(factory(newObj, nid), nid + 1)
              ELSE DR(NoNode, nid)
         [] this.typ = "Map"   -> COMapDiff(this, newObj, name, nid)
         [] this.typ = "Array" -> COArrayDiff(this, newObj, name, nid)
         [] OTHER              -> DR(NoNode, nid)

(***************************************************************************)
(* The map operations as a state machine: two COMap objects, A and B, and  *)
(* the calls a client makes on them.                                       *)
(***************************************************************************)
VARIABLES
  m,       \* the two objects
  next,    \* the next identity to allocate
  freed,   \* the identities deleted so far
  fault,   \* a call had undefined behaviour
  ops,     \* the number of calls made
  last,    \* the last call: its name, object, argument and result
  text,    \* the text buffer the serializers fill and the parsers read
  exited   \* a parser ended the process with exit( 0 )

vars == <<m, next, freed, fault, ops, last, text, exited>>

\* the number of calls in a run
MaxOps == 3

Objs == {"A", "B"}

PathA   == <<"a">>
PathUA  == <<"A">>
PathAB  == <<"a", "/", "b">>
PathABC == <<"a", "/", "b", "/", "c">>
PathA1  == <<"a", ":", "1">>

\* the keys and paths given to append
AppendKeys == {PathA, PathUA, PathAB, PathABC}
\* the keys given to extract and removeVal
PlainKeys == {PathA, PathUA}
\* the paths given to findElement
FindPaths == {PathA, PathAB, PathABC, PathA1}
\* the name by which merge and upDate match the maps held in arrays
MatchName == <<"n">>

ValueKinds == {"int", "str", "arr"}

\* the node a client builds before it hands it to append
NewValue(kind, nid) ==
  CASE kind = "int" -> COInteger(nid, 1, 4)
    [] kind = "str" -> COString(nid, <<"s">>)
    [] kind = "arr" -> [COArray(nid) EXCEPT !.kids = <<COInteger(nid + 1, 1, 4)>>]

Call(op, obj, key) ==
  [op |-> op, obj |-> obj, key |-> key, vid |-> 0, ok |-> FALSE, loc |-> <<>>, rtn |-> 0]

Init ==
  /\ m = [o \in Objs |-> COMap(IF o = "A" THEN 1 ELSE 2)]
  /\ next = 3
  /\ freed = {}
  /\ fault = FALSE
  /\ ops = 0
  /\ last = Call("new", "A", <<>>)
  /\ text = <<>>
  /\ exited = FALSE

Step == ~fault /\ ops < MaxOps /\ ops' = ops + 1 /\ UNCHANGED <<text, exited>>

\* m[o].append( key, new ... )
AppendOp(o, key, kind) ==
  /\ Step
  /\ \E v \in {NewValue(kind, next)} :
     \E r \in {append(m[o], key, v, next + NodeCount(v))} :
        /\ m' = [m EXCEPT ![o] = r.map]
        /\ next' = r.next
        /\ freed' = freed \cup r.del
        /\ last' = [Call("append", o, key) EXCEPT !.vid = v.id, !.rtn = r.rtn]
        /\ UNCHANGED fault

\* m[o].extract( key ): the caller owns the node and drops it
ExtractOp(o, key) ==
  /\ Step
  /\ \E r \in {extract(m[o], key)} :
        /\ m' = [m EXCEPT ![o] = r.map]
        /\ last' = [Call("extract", o, key) EXCEPT !.vid = r.rtn.id, !.ok = r.rtn.typ # "None"]
        /\ UNCHANGED <<next, freed, fault>>

RemoveValOp(o, key) ==
  /\ Step
  /\ m' = [m EXCEPT ![o] = removeVal(m[o], key)]
  /\ last' = Call("removeVal", o, key)
  /\ UNCHANGED <<next, freed, fault>>

ClearOp(o) ==
  /\ Step
  /\ \E r \in {clear(m[o])} :
        /\ m' = [m EXCEPT ![o] = r.map]
        /\ freed' = freed \cup r.del
        /\ last' = Call("clear", o, <<>>)
        /\ UNCHANGED <<next, fault>>

\* A.merge( &B, name )
MergeOp ==
  /\ Step
  /\ \E r \in {merge(m["A"], m["B"], MatchName, next)} :
        /\ m' = [m EXCEPT !["A"] = r.map]
        /\ next' = r.next
        /\ freed' = freed \cup r.del
        /\ fault' = r.fault
        /\ last' = Call("merge", "A", MatchName)

\* A.upDate( &B, name )
UpDateOp ==
  /\ Step
  /\ \E r \in {upDate(m["A"], m["B"], MatchName, next)} :
        /\ m' = [m EXCEPT !["A"] = r.map]
        /\ next' = r.next
        /\ freed' = freed \cup r.del
        /\ fault' = r.fault
        /\ last' = Call("upDate", "A", MatchName)

\* A = B
AssignOp ==
  /\ Step
  /\ \E r \in {COMapAssign(m["A"], m["B"], next)} :
        /\ m' = [m EXCEPT !["A"] = r.map]
        /\ next' = r.next
        /\ freed' = freed \cup r.del
        /\ last' = Call("assign", "A", <<>>)
        /\ UNCHANGED fault

\* B = new COMap( A ), the object B stood for is dropped
CopyOp ==
  /\ Step
  /\ \E c \in {COMapCopy(m["A"], next)} :
        /\ m' = [m EXCEPT !["B"] = c]
        /\ next' = next + NodeCount(c)
        /\ fault' = Faulted(c)
        /\ last' = Call("copy", "B", <<>>)
        /\ UNCHANGED freed

\* m[o] == m[other]
EqualsOp(o) ==
  /\ Step
  /\ last' = [Call("equals", o, <<>>) EXCEPT
                !.ok = COMapEquals(m[o], m[IF o = "A" THEN "B" ELSE "A"])]
  /\ UNCHANGED <<m, next, freed, fault>>

\* *A.findElement( key ) == *B.findElement( key ) on two nodes of one type
EqualsAtOp(key) ==
  /\ Step
  /\ \E x \in {Deref(m["A"], findElement(m["A"], key))} :
     \E y \in {Deref(m["B"], findElement(m["B"], key))} :
        /\ x.typ # "None" /\ y.typ = x.typ
        /\ last' = [Call("equalsAt", "A", key) EXCEPT !.ok = Equals(x, y)]
        /\ UNCHANGED <<m, next, freed, fault>>

\* A.findElement( path )
FindOp(path) ==
  /\ Step
  /\ \E r \in {findElement(m["A"], path)} :
        /\ last' = [Call("findElement", "A", path) EXCEPT
                      !.ok = r.ok, !.loc = r.loc, !.vid = Deref(m["A"], r).id]
        /\ UNCHANGED <<m, next, freed, fault>>

Next ==
  \/ \E o \in Objs, key \in AppendKeys, kind \in ValueKinds : AppendOp(o, key, kind)
  \/ \E o \in Objs, key \in PlainKeys : ExtractOp(o, key)
  \/ \E o \in Objs, key \in PlainKeys : RemoveValOp(o, key)
  \/ \E o \in Objs : ClearOp(o)
  \/ MergeOp
  \/ UpDateOp
  \/ AssignOp
  \/ CopyOp
  \/ \E o \in Objs : EqualsOp(o)
  \/ \E key \in PlainKeys : EqualsAtOp(key)
  \/ \E path \in FindPaths : FindOp(path)

Spec == Init /\ [][Next]_vars

(***************************************************************************)
(* The serializers and parsers as a state machine: object A is a tree the  *)
(* client built or nothing, text is what a serializer wrote or the client  *)
(* supplies, object B is what a parser makes of the text.                  *)
(***************************************************************************)
\* the number of entries of a container
MaxWidth == 2

ScalarKinds == {"seven", "minus", "true", "false", "null", "double", "string", "percent"}

\* the scalars a client builds
Scalar(kind, id) ==
  CASE kind = "seven"   -> COInteger(id, 7, 4)
    [] kind = "minus"   -> COInteger(id, -3, 8)
    [] kind = "true"    -> COBoolean(id, TRUE)
    [] kind = "false"   -> COBoolean(id, FALSE)
    [] kind = "null"    -> CONull(id)
    [] kind = "double"  -> CODouble(id, 15000)
    [] kind = "string"  -> COString(id, <<"s">>)
    [] kind = "percent" -> COString(id, <<"5", "%">>)

\* the key of the k-th entry: a, b, c, ...
KeyOf(k) == <<Chr(96 + k)>>

\* the values a container holds: a scalar, a map of one entry or an array
\* of one element
Inner(id) ==
  {Scalar(kind, id) : kind \in ScalarKinds}
    \cup {append(COMap(id), <<"k">>, COInteger(id + 1, 7, 4), 0).map,
          [COArray(id) EXCEPT !.kids = <<COBoolean(id + 1, FALSE)>>]}

\* the maps of k entries, appended in the order of their keys
RECURSIVE MapsOf(_)
MapsOf(k) ==
  IF k = 0 THEN {COMap(1)}
  ELSE {append(mp, KeyOf(k), v, 0).map : mp \in MapsOf(k - 1), v \in Inner(2 * k)}

\* the arrays of k elements
RECURSIVE ArraysOf(_)
ArraysOf(k) ==
  IF k = 0 THEN {COArray(1)}
  ELSE {[arr EXCEPT !.kids = Append(@, v)] : arr \in ArraysOf(k - 1), v \in Inner(2 * k)}

\* the map {"a":1,"b":"x"}, appended in the order a, b
ExampleMap ==
  append(append(COMap(1), <<"a">>, COInteger(2, 1, 4), 0).map,
         <<"b">>, COString(4, <<"x">>), 0).map

TreeSet ==
  {Scalar(kind, 1) : kind \in ScalarKinds}
    \cup UNION {MapsOf(k) \cup ArraysOf(k) : k \in 0..MaxWidth}
    \cup {ExampleMap}

\* the text {"a":7}
BaseText == <<"{", "\"", "a", "\"", ":", "7", "}">>

\* the places between two tokens of BaseText, each the number of characters
\* before it
Gaps == {1, 4, 5, 6}

\* the characters a client puts between two tokens
GapChars == {" ", "\t", "\n", "\r", "r", "x"}

\* BaseText with one character between two of its tokens
SpacedTexts == {InsertAt(BaseText, k + 1, c) : k \in Gaps, c \in GapChars}

\* the texts a client supplies
TextSet ==
  {<<"{", "\"", "a", "\"", ":", "\"", "s", "\"", ",", "x">>,  \* a map whose second entry is no name: {"a":"s",x
   <<"{", "\"", "a", "\"", ":", "\"", "s", "\"", "]">>,  \* a map closed by a bracket: {"a":"s"]
   <<"{", "\"", "a", "\"", ":", "-", "1">>,  \* a map that is not closed: {"a":-1
   <<"{", "\"", "a", "\"", ":", "7", "}">>,  \* a map holding an unsigned number: {"a":7}
   <<"{", "\"", "a", "\"", ":", "n", "u", "l", "l", "}">>,  \* a map holding null: {"a":null}
   <<"[", "]">>,  \* an empty array: []
   <<"[", "7", ",", "\"", "s", "\"", "]">>,  \* an array: [7,"s"]
   <<"x">>,  \* a bare word: x
   <<"3", ":", "a", "b", "c", ",">>,  \* a net string: 3:abc,
   <<"9", ":", "a", "b", "c", ",">>,  \* a net string whose length exceeds the text: 9:abc,
   <<"5", ":", "a", "b", "c", ",">>,  \* a net string one byte short: 5:abc,
   <<>>}  \* the empty text
    \cup SpacedTexts

ParseInit ==
  /\ \/ m \in {[o \in Objs |-> IF o = "A" THEN t ELSE NoNode] : t \in TreeSet} /\ text = <<>>
     \/ m = [o \in Objs |-> NoNode] /\ text \in TextSet
  /\ next = 10
  /\ freed = {}
  /\ fault = FALSE
  /\ ops = 0
  /\ last = Call("new", "A", <<>>)
  /\ exited = FALSE

\* no call is made once the process has ended
ParseStep == ~fault /\ ~exited /\ ops < MaxOps /\ ops' = ops + 1

\* text = A.toNetString()
ToNetStringOp ==
  /\ ParseStep
  /\ isObj(m["A"])
  /\ text' = toNetString(m["A"])
  /\ last' = Call("toNetString", "A", <<>>)
  /\ UNCHANGED <<m, next, freed, fault, exited>>

\* text = A.toJsonString()
ToJsonStringOp ==
  /\ ParseStep
  /\ isObj(m["A"])
  /\ text' = toJsonString(m["A"])
  /\ last' = Call("toJsonString", "A", <<>>)
  /\ UNCHANGED <<m, next, freed, fault, exited>>

\* B = CppON::parseJson( text )
ParseJsonOp ==
  /\ ParseStep
  /\ \E r \in {parseJson(text)} :
        /\ m' = [m EXCEPT !["B"] = r.obj]
        /\ exited' = r.exit
        /\ fault' = r.fault
        /\ last' = [Call("parseJson", "B", text) EXCEPT !.ok = r.obj # NoNode]
        /\ UNCHANGED <<next, freed, text>>

\* B = new COMap( text )
NewMapOp ==
  /\ ParseStep
  /\ \E r \in {COMapFromText(next, text)} :
        /\ m' = [m EXCEPT !["B"] = r.map]
        /\ next' = next + 1
        /\ exited' = r.exit
        /\ fault' = r.fault
        /\ last' = [Call("COMap", "B", text) EXCEPT !.ok = ~r.diag]
        /\ UNCHANGED <<freed, text>>

\* B = text, for B a map
AssignTextOp ==
  /\ ParseStep
  /\ isMap(m["B"])
  /\ \E r \in {COMapAssignText(m["B"], text)} :
        /\ m' = [m EXCEPT !["B"] = r.map]
        /\ exited' = r.exit
        /\ fault' = r.fault
        /\ last' = [Call("assignText", "B", text) EXCEPT !.ok = ~r.diag]
        /\ UNCHANGED <<next, freed, text>>

ParseNext ==
  \/ ToNetStringOp
  \/ ToJsonStringOp
  \/ ParseJsonOp
  \/ NewMapOp
  \/ AssignTextOp

ParseSpec == ParseInit /\ [][ParseNext]_vars

(***************************************************************************)
(* diff, merge and upDate as a state machine: A is the old tree and the    *)
(* target of merge and upDate, B the new tree and their source, D what     *)
(* the last diff returned.                                                 *)
(***************************************************************************)
DiffObjs == {"A", "B", "D"}

DiffKinds ==
  {"one", "two", "half", "fixed", "near", "true", "str", "null", "map1", "map2",
   "arr12", "arr13", "arr123", "strs", "named1", "named2",
   "zero", "false", "small", "whole", "strTrue", "strOne", "strHalf"}

\* a map whose entry b is the Integer i, and one that has a name as well
MapB(id, i) == append(COMap(id), <<"b">>, COInteger(id + 1, i, 4), 0).map

NamedB(id, i) == append(MapB(id, i), MatchName, COString(id + 2, <<"x">>), 0).map

\* an array of 4-byte Integers
IntArray(id, xs) ==
  [COArray(id) EXCEPT !.kids = [i \in 1..Len(xs) |-> COInteger(id + i, xs[i], 4)]]

\* the values a client stores in the two trees; "fixed" is a Double whose
\* precision the client set to 2 by Precision( 2 )
DiffValue(kind, id) ==
  CASE kind = "one"    -> COInteger(id, 1, 4)
    [] kind = "two"    -> COInteger(id, 2, 4)
    [] kind = "half"   -> CODouble(id, 15000)
    [] kind = "fixed"  -> [CODouble(id, 31200) EXCEPT !.prec = 2]
    [] kind = "near"   -> CODouble(id, 31274)
    [] kind = "true"   -> COBoolean(id, TRUE)
    [] kind = "str"    -> COString(id, <<"s">>)
    [] kind = "null"   -> CONull(id)
    [] kind = "map1"   -> MapB(id, 1)
    [] kind = "map2"   -> MapB(id, 2)
    [] kind = "arr12"  -> IntArray(id, <<1, 2>>)
    [] kind = "arr13"  -> IntArray(id, <<1, 3>>)
    [] kind = "arr123" -> IntArray(id, <<1, 2, 3>>)
    [] kind = "strs"   -> [COArray(id) EXCEPT !.kids = <<COString(id + 1, <<"s">>)>>]
    [] kind = "named1" -> [COArray(id) EXCEPT !.kids = <<NamedB(id + 1, 1)>>]
    [] kind = "named2" -> [COArray(id) EXCEPT !.kids = <<NamedB(id + 1, 2)>>]
    [] kind = "zero"   -> COInteger(id, 0, 4)
    [] kind = "false"  -> COBoolean(id, FALSE)
    [] kind = "small"  -> CODouble(id, 5000)
    [] kind = "whole"  -> CODouble(id, 10000)
    [] kind = "strTrue" -> COString(id, <<"t", "r", "u", "e">>)
    [] kind = "strOne"  -> COString(id, <<"1">>)
    [] kind = "strHalf" -> COString(id, <<"1", ".", "5">>)

\* the trees a client builds, their nodes numbered from id: the empty map,
\* a map of one entry a, one that has an entry c as well, and one whose key
\* holds a colon
DiffTrees(id) ==
  {append(COMap(id), PathA, DiffValue(kind, id + 1), 0).map : kind \in DiffKinds}
    \cup {COMap(id),
          append(COMap(id), PathA1, COInteger(id + 1, 1, 4), 0).map,
          append(append(COMap(id), PathA, COInteger(id + 1, 1, 4), 0).map,
                 <<"c">>, COInteger(id + 2, 2, 4), 0).map}

DiffInit ==
  /\ m \in {[o \in DiffObjs |-> IF o = "A" THEN a ELSE IF o = "B" THEN b ELSE NoNode]
              : a \in DiffTrees(1), b \in DiffTrees(20)}
  /\ next = 40
  /\ freed = {}
  /\ fault = FALSE
  /\ ops = 0
  /\ last = Call("new", "A", <<>>)
  /\ text = <<>>
  /\ exited = FALSE

\* D = A.diff( B, name ), the node D stood for is dropped
DiffOp ==
  /\ Step
  /\ \E r \in {diff(m["A"], m["B"], MatchName, next)} :
        /\ m' = [m EXCEPT !["D"] = r.rtn]
        /\ next' = r.next
        /\ fault' = r.fault
        /\ last' = [Call("diff", "D", MatchName) EXCEPT !.ok = isObj(r.rtn)]
        /\ UNCHANGED freed

\* D = x.diff( x, name ) for x the tree m[o] or its entry a
DiffSelfOp(o, key) ==
  /\ Step
  /\ \E x \in {IF key = <<>> THEN m[o] ELSE Deref(m[o], findElement(m[o], key))} :
        /\ isObj(x)
        /\ \E r \in {diff(x, x, MatchName, next)} :
              /\ m' = [m EXCEPT !["D"] = r.rtn]
              /\ next' = r.next
              /\ fault' = r.fault
              /\ last' = [Call("diffSelf", o, key) EXCEPT !.ok = isObj(r.rtn)]
              /\ UNCHANGED freed

\* D = A.diff( B, name ); if( D ) A.merge( D, name )
MergeDiffOp ==
  /\ Step
  /\ \E d \in {diff(m["A"], m["B"], MatchName, next)} :
        /\ isMap(d.rtn) /\ ~d.fault
        /\ \E r \in {merge(m["A"], d.rtn, MatchName, d.next)} :
              /\ m' = [m EXCEPT !["A"] = r.map, !["D"] = d.rtn]
              /\ next' = r.next
              /\ freed' = freed \cup r.del
              /\ fault' = r.fault
              /\ last' = [Call("mergeDiff", "A", MatchName) EXCEPT !.ok = TRUE]

DiffNext ==
  \/ DiffOp
  \/ \E o \in {"A", "B"}, key \in {<<>>, PathA} : DiffSelfOp(o, key)
  \/ MergeDiffOp
  \/ MergeOp
  \/ UpDateOp

DiffSpec == DiffInit /\ [][DiffNext]_vars

(***************************************************************************)
(* The numbers as a state machine: one Integer or Double node A, changed   *)
(* by the compound operators and by the assignment of a double             *)
(***************************************************************************)
ArithOps == {"+=", "-=", "*=", "/="}

\* the operands t of A op= t
Operands == {0, 1, 5, 10}

\* sizeof( T ) of the operand: an int8_t and an int
OperandSizes == {1, 4}

\* the doubles assigned to A, in units of 1/DScale
Assigned == {31274, 31275, 31276, 31350}

\* new COInteger( (intN_t) v ) and new COInteger( (uintN_t) v )
IntegerNodes ==
  {COInteger(1, v, 1) : v \in {127, -128, 100, -7}}
    \cup {COInteger(1, v, 2) : v \in {32767, -32768, 300}}
    \cup {COInteger(1, 7, 4), COInteger(1, 7, 8)}
    \cup {COUInteger(1, v, 1) : v \in {250, 3, 0}}
    \cup {COUInteger(1, v, 2) : v \in {65530, 2}}

\* new CODouble( 3.12 ), with and without Precision( 2 )
DoubleNodes == {CODouble(1, 31200), [CODouble(1, 31200) EXCEPT !.prec = 2]}

NumInit ==
  /\ m \in {[o \in {"A"} |-> n] : n \in IntegerNodes \cup DoubleNodes}
  /\ next = 2
  /\ freed = {}
  /\ fault = FALSE
  /\ ops = 0
  /\ last = Call("new", "A", <<>>)
  /\ text = <<>>
  /\ exited = FALSE

\* *A op= t for an Integer A; last.vid carries the operand t.  The division
\* by zero stops the process.
OperateOp(op, t, sz) ==
  /\ Step
  /\ isInteger(m["A"])
  /\ IF op = "/=" /\ t = 0
     THEN /\ fault' = TRUE
          /\ last' = [Call(op, "A", <<>>) EXCEPT !.vid = t]
          /\ UNCHANGED <<m, next, freed>>
     ELSE \E r \in {doOperation(m["A"], sz, t, op)} :
            /\ m' = [m EXCEPT !["A"] = r.node]
            /\ last' = [Call(op, "A", <<>>) EXCEPT !.vid = t, !.ok = TRUE, !.rtn = r.rtn]
            /\ UNCHANGED <<next, freed, fault>>

\* *A = val for a Double A; last.vid carries the value val
AssignDoubleOp(val) ==
  /\ Step
  /\ isDouble(m["A"])
  /\ m' = [m EXCEPT !["A"] = CODoubleAssign(m["A"], val)]
  /\ last' = [Call("=", "A", <<>>) EXCEPT !.vid = val, !.ok = TRUE]
  /\ UNCHANGED <<next, freed, fault>>

NumNext ==
  \/ \E op \in ArithOps, t \in Operands, sz \in OperandSizes : OperateOp(op, t, sz)
  \/ \E val \in Assigned : AssignDoubleOp(val)

NumSpec == NumInit /\ [][NumNext]_vars

(***************************************************************************)
(* The lookups as a state machine: A is a map a client built, searched by  *)
(* findElement and findCaseElement                                         *)
(***************************************************************************)
\* the map {key: v}
MapWith(id, key, v) == append(COMap(id), key, v, 0).map

\* the array [v]
ArrayWith(id, v) == [COArray(id) EXCEPT !.kids = <<v>>]

\* the maps a client builds: under the key k1 a map {k2: 1}, an array that
\* holds it, an array of an array that holds it, or an array of integers
FindTrees ==
  UNION {{MapWith(1, k1, MapWith(2, k2, COInteger(3, 1, 4))),
          MapWith(1, k1, ArrayWith(2, MapWith(3, k2, COInteger(4, 1, 4)))),
          MapWith(1, k1, ArrayWith(2, ArrayWith(3, MapWith(4, k2, COInteger(5, 1, 4)))))}
         : k1 \in {<<"a">>, <<"A">>}, k2 \in {<<"b">>, <<"B">>}}
    \cup {MapWith(1, k1, [COArray(2) EXCEPT !.kids = <<COInteger(3, 1, 4), COInteger(4, 2, 4)>>])
          : k1 \in {<<"a">>, <<"A">>}}

\* the paths a client asks for: a/b, a:0/b, a:0:0/b, a:1 and a, in either case
CasePaths ==
  UNION {{p1 \o <<"/">> \o p2, p1 \o <<":", "0", "/">> \o p2,
          p1 \o <<":", "0", ":", "0", "/">> \o p2}
         : p1 \in {<<"a">>, <<"A">>}, p2 \in {<<"b">>, <<"B">>}}
    \cup UNION {{p1 \o <<":", "1">>, p1} : p1 \in {<<"a">>, <<"A">>}}

FindInit ==
  /\ m \in {[o \in {"A"} |-> t] : t \in FindTrees}
  /\ next = 10
  /\ freed = {}
  /\ fault = FALSE
  /\ ops = 0
  /\ last = Call("new", "A", <<>>)
  /\ text = <<>>
  /\ exited = FALSE

\* A.findCaseElement( path )
FindCaseOp(path) ==
  /\ Step
  /\ \E r \in {findCaseElement(m["A"], path)} :
        /\ last' = [Call("findCaseElement", "A", path) EXCEPT
                      !.ok = r.ok, !.loc = r.loc, !.vid = Deref(m["A"], r).id]
        /\ UNCHANGED <<m, next, freed, fault>>

FindNext ==
  \/ \E path \in CasePaths : FindCaseOp(path)
  \/ \E path \in CasePaths : FindOp(path)

FindSpec == FindInit /\ [][FindNext]_vars

(***************************************************************************)
(* The line parsers as a state machine: text is the content of a file, B   *)
(* what parseCSV or parseTSV made of it                                    *)
(***************************************************************************)
\* the length of the file contents tried in full
MaxText == 4

FileChars == {"a", ",", "\t", "\n", "%"}

RECURSIVE TextsOf(_)
TextsOf(k) ==
  IF k = 0 THEN {<<>>} ELSE {Append(t, c) : t \in TextsOf(k - 1), c \in FileChars}

\* the file a,b\n1,2\n
ExampleFile == <<"a", ",", "b", "\n", "1", ",", "2", "\n">>

FileSet ==
  UNION {TextsOf(k) : k \in 0..MaxText}
    \cup {ExampleFile, SubSeq(ExampleFile, 1, Len(ExampleFile) - 1)}

LineInit ==
  /\ m = [o \in {"B"} |-> NoNode]
  /\ text \in FileSet
  /\ next = 1
  /\ freed = {}
  /\ fault = FALSE
  /\ ops = 0
  /\ last = Call("new", "B", <<>>)
  /\ exited = FALSE

LineStep == ~fault /\ ops < MaxOps /\ ops' = ops + 1 /\ UNCHANGED <<text, exited, next, freed, fault>>

\* B = CppON::parseCSV( file )
ParseCSVOp ==
  /\ LineStep
  /\ m' = [m EXCEPT !["B"] = parseCSV(text)]
  /\ last' = [Call("parseCSV", "B", <<",">>) EXCEPT !.ok = TRUE]

\* B = CppON::parseTSV( file )
ParseTSVOp ==
  /\ LineStep
  /\ m' = [m EXCEPT !["B"] = parseTSV(text)]
  /\ last' = [Call("parseTSV", "B", <<"\t">>) EXCEPT !.ok = TRUE]

LineNext == ParseCSVOp \/ ParseTSVOp

LineSpec == LineInit /\ [][LineNext]_vars

(***************************************************************************)
(* An array and its elements: A is built, cleared, used and destroyed      *)
(***************************************************************************)
\* CppON::deleteData on a container: delete of every element it holds
deleteData(n) == UNION {Ids(n.kids[i]) : i \in 1..Len(n.kids)}

\* COArray::clear: delete( v->at( i ) ) for every i; the vector itself is
\* left as it is, so it keeps its size and the pointers it held
COArrayClear(arr) == [arr |-> arr, del |-> deleteData(arr)]

\* COArray::replace: the element at i is deleted and n stored in its place
COArrayReplace(arr, i, n) ==
  IF Len(arr.kids) > i
    THEN [arr |-> [arr EXCEPT !.kids[i + 1] = n], del |-> Ids(arr.kids[i + 1]), rtn |-> TRUE]
    ELSE [arr |-> arr, del |-> {}, rtn |-> FALSE]

\* COArray::size
COArraySize(arr) == Len(arr.kids)

\* the arrays of at most two elements, the array with identity 1
ArraySet ==
  {COArray(1)}
    \cup {[COArray(1) EXCEPT !.kids = <<NewValue(k, 2)>>] : k \in ValueKinds}
    \cup {[COArray(1) EXCEPT !.kids = <<NewValue(k, 2), NewValue(l, 4)>>] : k, l \in ValueKinds}

ArrayInit ==
  /\ m \in {[o \in {"A"} |-> a] : a \in ArraySet}
  /\ next = 6
  /\ freed = {}
  /\ fault = FALSE
  /\ ops = 0
  /\ last = Call("new", "A", <<>>)
  /\ text = <<>>
  /\ exited = FALSE

ArrayStep == ~fault /\ ops < MaxOps /\ isArray(m["A"]) /\ ops' = ops + 1 /\ UNCHANGED <<text, exited>>

\* delete of nodes: deleting a node a second time is undefined, the run
\* either goes on or is brought down
Delete(del) ==
  /\ freed' = freed \cup del
  /\ \E f \in BOOLEAN : (f => del \cap freed # {}) /\ fault' = f

\* A.append( new ... )
ArrayAppendOp(kind) ==
  /\ ArrayStep
  /\ \E v \in {NewValue(kind, next)} :
        /\ m' = [m EXCEPT !["A"].kids = Append(@, v)]
        /\ next' = next + NodeCount(v)
        /\ last' = [Call("append", "A", <<>>) EXCEPT !.vid = v.id]
        /\ UNCHANGED <<freed, fault>>

\* A.clear()
ArrayClearOp ==
  /\ ArrayStep
  /\ \E r \in {COArrayClear(m["A"])} :
        /\ m' = [m EXCEPT !["A"] = r.arr]
        /\ Delete(r.del)
        /\ last' = [Call("clear", "A", <<>>) EXCEPT !.rtn = COArraySize(r.arr)]
        /\ UNCHANGED next

\* A.replace( i, new ... )
ArrayReplaceOp(i, kind) ==
  /\ ArrayStep
  /\ \E v \in {NewValue(kind, next)} :
     \E r \in {COArrayReplace(m["A"], i, v)} :
        /\ m' = [m EXCEPT !["A"] = r.arr]
        /\ Delete(r.del)
        /\ next' = next + NodeCount(v)
        /\ last' = [Call("replace", "A", <<>>) EXCEPT !.vid = v.id, !.ok = r.rtn, !.rtn = i]

\* A.size()
ArraySizeOp ==
  /\ ArrayStep
  /\ last' = [Call("size", "A", <<>>) EXCEPT !.rtn = COArraySize(m["A"])]
  /\ UNCHANGED <<m, next, freed, fault>>

\* delete A
ArrayDeleteOp ==
  /\ ArrayStep
  /\ m' = [m EXCEPT !["A"] = NoNode]
  /\ Delete(deleteData(m["A"]) \cup {m["A"].id})
  /\ last' = Call("delete", "A", <<>>)
  /\ UNCHANGED next

ArrayNext ==
  \/ \E kind \in ValueKinds : ArrayAppendOp(kind)
  \/ ArrayClearOp
  \/ \E i \in 0..1, kind \in ValueKinds : ArrayReplaceOp(i, kind)
  \/ ArraySizeOp
  \/ ArrayDeleteOp

ArraySpec == ArrayInit /\ [][ArrayNext]_vars

(***************************************************************************)
(* The diff of two arrays as a state machine: A is the old array, B the    *)
(* new one and D what A.diff( B ) returned                                 *)
(***************************************************************************)
\* the arrays a client builds, their nodes numbered from id
DiffArrays(id) ==
  {COArray(id), IntArray(id, <<1>>), IntArray(id, <<1, 2>>), IntArray(id, <<1, 3>>),
   IntArray(id, <<1, 2, 3>>),
   [COArray(id) EXCEPT !.kids = <<COString(id + 1, <<"s">>)>>],
   [COArray(id) EXCEPT !.kids = <<COInteger(id + 1, 1, 4), COString(id + 2, <<"s">>)>>],
   [COArray(id) EXCEPT !.kids = <<COBoolean(id + 1, TRUE), CONull(id + 2)>>],
   [COArray(id) EXCEPT !.kids = <<IntArray(id + 1, <<1, 2>>)>>],
   [COArray(id) EXCEPT !.kids = <<IntArray(id + 1, <<1, 3>>)>>],
   [COArray(id) EXCEPT !.kids = <<MapB(id + 1, 1)>>],
   [COArray(id) EXCEPT !.kids = <<MapB(id + 1, 2)>>],
   [COArray(id) EXCEPT !.kids = <<NamedB(id + 1, 1)>>],
   [COArray(id) EXCEPT !.kids = <<NamedB(id + 1, 2)>>]}

ArrayDiffInit ==
  /\ m \in {[o \in DiffObjs |-> IF o = "A" THEN a ELSE IF o = "B" THEN b ELSE NoNode]
              : a \in DiffArrays(1), b \in DiffArrays(20)}
  /\ next = 40
  /\ freed = {}
  /\ fault = FALSE
  /\ ops = 0
  /\ last = Call("new", "A", <<>>)
  /\ text = <<>>
  /\ exited = FALSE

\* D = A.diff( B, name ) on the two arrays, the node D stood for is dropped
ArrayDiffOp(name) ==
  /\ Step
  /\ \E r \in {COArrayDiff(m["A"], m["B"], name, next)} :
        /\ m' = [m EXCEPT !["D"] = r.rtn]
        /\ next' = r.next
        /\ fault' = r.fault
        /\ last' = [Call("diff", "D", name) EXCEPT !.ok = isObj(r.rtn)]
        /\ UNCHANGED freed

ArrayDiffNext == \E name \in {<<>>, MatchName} : ArrayDiffOp(name)

ArrayDiffSpec == ArrayDiffInit /\ [][ArrayDiffNext]_vars

(***************************************************************************)
(* Properties of the map operations                                        *)
(***************************************************************************)
\* two trees hold the same values: the identities and the bookkeeping of a
\* node (order list, size, precision) are not compared
RECURSIVE DeepEqual(_, _)
DeepEqual(x, y) ==
  /\ x.typ = y.typ
  /\ x.num = y.num
  /\ x.str = y.str
  /\ x.keys = y.keys
  /\ Len(x.kids) = Len(y.kids)
  /\ \A i \in 1..Len(x.kids) : DeepEqual(x.kids[i], y.kids[i])

\* the order list holds exactly the keys of the lookup table, each once
OrderMatchesTable(n) ==
  /\ Len(n.order) = Len(n.keys)
  /\ {n.order[i] : i \in 1..Len(n.order)} = {n.keys[i] : i \in 1..Len(n.keys)}

\* C1: after any sequence of append, extract, removeVal, clear, merge, upDate
\* and assignment the order list of a map holds exactly the keys of its
\* lookup table, each once.
C1_OrderListMatchesLookupTable == \A o \in Objs : OrderMatchesTable(m[o])

\* C2: a copy-constructed map has the keys of its source, under each key a
\* clone that is structurally identical to the source's child at that key,
\* and shares no node with the source.
C2_CopyIsDeepClone ==
  last.op = "copy" =>
    /\ ~fault
    /\ DeepEqual(m["A"], m["B"])
    /\ Ids(m["A"]) \cap Ids(m["B"]) = {}

\* C3: two maps compare equal only if they have the same key set and deeply
\* equal values, and A == B gives what B == A gives.
C3_MapEqualityIsExactAndSymmetric ==
  last.op = "equals" =>
    /\ last.ok => DeepEqual(m["A"], m["B"])
    /\ COMapEquals(m["A"], m["B"]) = COMapEquals(m["B"], m["A"])

\* C4: two arrays compare equal exactly when they have the same length and
\* deeply equal elements, also when they are distinct objects holding
\* distinct nodes.
C4_ArrayEqualityIsStructural ==
  \A x \in {Deref(m["A"], findElement(m["A"], last.key))} :
  \A y \in {Deref(m["B"], findElement(m["B"], last.key))} :
     last.op = "equalsAt" /\ isArray(x) /\ isArray(y) => (last.ok <=> DeepEqual(x, y))

\* the node findElement( path ) yields in the map n is the node with identity id
Finds(n, path, id) ==
  \E r \in {findElement(n, path)} : r.ok /\ NodeAt(n, r.loc).id = id

\* C9 as stated: for every map, whatever its entries, after
\* append( "a/b/c", v ) the lookup findElement( "a/b/c" ) yields v itself.
C9_AppendThenFindAnyMap ==
  last.op = "append" /\ last.key = PathABC => Finds(m[last.obj], PathABC, last.vid)

\* every entry that a/b/c passes through is absent or a map
PrefixesAreMaps(n) ==
  \E i \in {MapFind(n, <<"a">>)} :
     \/ i = 0
     \/ /\ isMap(n.kids[i])
        /\ \E j \in {MapFind(n.kids[i], <<"b">>)} : j = 0 \/ isMap(n.kids[i].kids[j])

\* C9 amended: when the entries "a" and "a/b" of the map are absent or maps,
\* after append( "a/b/c", v ) the lookup findElement( "a/b/c" ) yields v itself.
C9_AppendThenFind ==
  [][\A o \in Objs :
       (last'.op = "append" /\ last'.obj = o /\ last'.key = PathABC /\ PrefixesAreMaps(m[o]))
          => Finds(m'[o], PathABC, last'.vid)]_vars

\* an append of a/b/c whose value the lookup then yields
C9_Witness ==
  /\ last.op = "append" /\ last.key = PathABC /\ last.rtn = 0
  /\ Finds(m[last.obj], PathABC, last.vid)

\* a segment of the path is missing below n: its key is absent, its index
\* is out of range, or what remains of the path is below a scalar
RECURSIVE SegmentMissing(_, _)
SegmentMissing(n, path) ==
  \E sp \in {splitPath(path)} :
  \E idx \in {IndexOf(sp.val, ":")} :
  \E i \in {MapFind(n, IF idx = 0 THEN sp.val ELSE SubSeq(sp.val, 1, idx - 1))} :
     \/ i = 0
     \/ /\ idx = 0 /\ sp.remainder # <<>>
        /\ \/ ~isMap(n.kids[i]) /\ ~isArray(n.kids[i])
           \/ isMap(n.kids[i]) /\ SegmentMissing(n.kids[i], sp.remainder)
     \/ /\ idx # 0 /\ isArray(n.kids[i])
        /\ \E k \in {strtol(sp.val, idx + 1).val} : k >= Len(n.kids[i].kids)

\* C10: findElement yields no node whenever a segment of the path is missing.
C10_MissingSegmentFindsNothing ==
  last.op = "findElement" /\ SegmentMissing(m["A"], last.key) => ~last.ok

(***************************************************************************)
(* Properties of the serializers and parsers                               *)
(***************************************************************************)
\* C5: for every tree T of representable variants, parsing the net string
\* of T yields a tree equal to T.
C5_NetStringRoundTrip ==
  last.op = "parseJson" /\ isObj(m["A"]) /\ last.key = toNetString(m["A"]) =>
    ~exited /\ DeepEqual(m["B"], m["A"])

\* C6: for every tree T of representable variants, parsing the pretty JSON
\* text of T yields a tree equal to T.
C6_PrettyJsonRoundTrip ==
  last.op = "parseJson" /\ isObj(m["A"]) /\ last.key = toJsonString(m["A"]) =>
    ~exited /\ DeepEqual(m["B"], m["A"])

\* C7: after a parse that reported a failure the caller holds no container
\* with the entries parsed before the error: a map constructed or assigned
\* from a text whose parse printed a diagnostic has no entry.
C7_NoPartialContainer ==
  last.op \in {"COMap", "assignText"} /\ ~last.ok /\ ~exited => m["B"].keys = <<>>

\* C8: no input text makes a parser end the process.
C8_ParserNeverExits == ~exited

(***************************************************************************)
(* Properties of diff, merge and upDate                                    *)
(***************************************************************************)
\* C11: the diff of a tree with itself is none, for every tree: a map, an
\* array or a scalar, whatever it holds.
C11_DiffSelfIsNone == last.op = "diffSelf" => ~last.ok /\ m["D"] = NoNode
\* the keys of the map new that are absent from the map old or hold there
\* a value that differs
ChangedKeys(old, new) ==
  {new.keys[j] : j \in {j \in 1..Len(new.keys) :
                          \E i \in {MapFind(old, new.keys[j])} :
                             i = 0 \/ ~DeepEqual(old.kids[i], new.kids[j])}}

\* C12: the map A.diff( B ) returns holds exactly the keys of B that are
\* absent from A or whose value differs from A's, and the result is none
\* when there is no such key.
C12_DiffHoldsChangedKeys ==
  last.op = "diff" /\ ~fault =>
    IF ChangedKeys(m["A"], m["B"]) = {} THEN m["D"] = NoNode
    ELSE /\ isMap(m["D"])
         /\ {m["D"].keys[i] : i \in 1..Len(m["D"].keys)} = ChangedKeys(m["A"], m["B"])
\* every field the diff d reports holds in the map a a value equal to the
\* one the map b holds there; a map the diff reports is compared field by
\* field
RECURSIVE ReportedFieldsAgree(_, _, _)
ReportedFieldsAgree(d, a, b) ==
  \A i \in 1..Len(d.keys) :
     \E ia \in {MapFind(a, d.keys[i])} :
     \E ib \in {MapFind(b, d.keys[i])} :
        /\ ia # 0
        /\ ib # 0
        /\ IF isMap(d.kids[i]) /\ isMap(a.kids[ia]) /\ isMap(b.kids[ib])
           THEN ReportedFieldsAgree(d.kids[i], a.kids[ia], b.kids[ib])
           ELSE DeepEqual(a.kids[ia], b.kids[ib])

\* C13: after the diff of the maps A and B is merged into A, every field the
\* diff reported as changed or added holds in A a value equal to B's.
C13_MergeOfDiffAgreesWithNew ==
  last.op = "mergeDiff" /\ ~fault => ReportedFieldsAgree(m["D"], m["A"], m["B"])
IsScalar(n) == n.typ \in {"Integer", "Double", "String", "Boolean", "Null"}

\* the entry key of the map after holds the value of the scalar src: it is
\* the node was, updated in place, when was is of the variant of src, and a
\* node of the variant of src otherwise
MergedScalar(after, key, was, src) ==
  \E i \in {MapFind(after, key)} :
     /\ i # 0
     /\ DeepEqual(after.kids[i], src)
     /\ was.typ = src.typ => after.kids[i].id = was.id

\* C14: in A.merge( B ), for a key present in both whose value in B is a
\* scalar: A's node is updated in place to B's value when the variants are
\* the same, and replaced by a node of B's variant holding B's value when
\* they differ.
C14_MergeScalarTakesSourceValue ==
  [][last'.op = "merge" /\ ~fault' =>
       \A j \in 1..Len(m["B"].keys) :
          \E i \in {MapFind(m["A"], m["B"].keys[j])} :
             i # 0 /\ IsScalar(m["B"].kids[j]) =>
                MergedScalar(m'["A"], m["B"].keys[j], m["A"].kids[i], m["B"].kids[j])]_vars
\* the places of the array arr that hold an element equal to e
EqualPlaces(arr, e) == {i \in 1..Len(arr.kids) : DeepEqual(arr.kids[i], e)}

\* the source element e has been merged into the array before, giving after:
\* a map with a name is found in after under its name; any other element
\* is in after once if it was not in before, and as often as it was otherwise
ElementMerged(before, after, e, name) ==
  IF isString(NameOf(e, name))
  THEN \E i \in 1..Len(after.kids) : SameName(after.kids[i], NameOf(e, name), name)
  ELSE Cardinality(EqualPlaces(after, e)) =
         IF EqualPlaces(before, e) = {} THEN 1 ELSE Cardinality(EqualPlaces(before, e))

\* C15: in A.merge( B ), for a key that holds an array in both, the array of
\* A is the union afterwards: a source element that is a map with a name is
\* merged into the element of that name or appended, every other source
\* element is appended unless an equal element is present.
C15_MergeArrayIsUnion ==
  [][last'.op = "merge" /\ ~fault' =>
       \A j \in 1..Len(m["B"].keys) :
          \E i \in {MapFind(m["A"], m["B"].keys[j])} :
          \E i2 \in {MapFind(m'["A"], m["B"].keys[j])} :
             i # 0 /\ isArray(m["B"].kids[j]) /\ isArray(m["A"].kids[i]) =>
                /\ i2 # 0
                /\ isArray(m'["A"].kids[i2])
                /\ \A k \in 1..Len(m["B"].kids[j].kids) :
                      ElementMerged(m["A"].kids[i], m'["A"].kids[i2],
                                    m["B"].kids[j].kids[k], MatchName)]_vars
\* C16: in A.upDate( B ), a scalar that both maps hold under one key with
\* the same variant is overwritten whatever the two values are: afterwards
\* A's value under the key equals B's.
C16_UpDateOverwritesScalar ==
  [][last'.op = "upDate" /\ ~fault' =>
       \A j \in 1..Len(m["B"].keys) :
          \E i \in {MapFind(m["A"], m["B"].keys[j])} :
          \E i2 \in {MapFind(m'["A"], m["B"].keys[j])} :
             i # 0 /\ IsScalar(m["B"].kids[j]) /\ m["A"].kids[i].typ = m["B"].kids[j].typ =>
                i2 # 0 /\ DeepEqual(m'["A"].kids[i2], m["B"].kids[j])]_vars
\* the element at place i of the array before was replaced wholesale by a
\* copy of the source element e: the copy stands at place i of after, none
\* of its nodes is a node of e, and the nodes of the old element are deleted
ReplacedWholesale(before, after, i, e, deleted) ==
  /\ i <= Len(after.kids)
  /\ DeepEqual(after.kids[i], e)
  /\ Ids(after.kids[i]) \cap (Ids(e) \cup Ids(before.kids[i])) = {}
  /\ Ids(before.kids[i]) \subseteq deleted

\* C17: in A.upDate( B ), an element of an array of A that is a map matched
\* by its name to a source element is replaced wholesale: the old element is
\* destroyed exactly once (fault records a second delete of it) and a fresh
\* copy of the source element takes its place.
C17_UpDateReplacesMatchedElementOnce ==
  [][last'.op = "upDate" =>
       \A j \in 1..Len(m["B"].keys) :
          \E i \in {MapFind(m["A"], m["B"].keys[j])} :
             i # 0 /\ isArray(m["B"].kids[j]) /\ isArray(m["A"].kids[i]) =>
                \A k \in 1..Len(m["B"].kids[j].kids) :
                   \E e \in {m["B"].kids[j].kids[k]} :
                   \E p \in {IF isString(NameOf(e, MatchName))
                             THEN MatchByName(m["A"].kids[i], NameOf(e, MatchName), MatchName)
                             ELSE 0} :
                      p # 0 =>
                         /\ ~fault'
                         /\ ReplacedWholesale(m["A"].kids[i], m'["A"].kids[i], p, e, freed')]_vars
\* C18: diff, merge and upDate link no node of one tree into another: the
\* nodes they add to the target or put into the result are newly allocated,
\* the trees share no node afterwards and the source B is as it was.
C18_NoNodeSharedAcrossTrees ==
  [][last'.op \in {"diff", "diffSelf", "merge", "upDate", "mergeDiff"} =>
       /\ m'["B"] = m["B"]
       /\ \A id \in Ids(m'["A"]) \ Ids(m["A"]) : next <= id /\ id < next'
       /\ last'.op \in {"diff", "diffSelf", "mergeDiff"} =>
             \A id \in Ids(m'["D"]) : next <= id /\ id < next'
       /\ Ids(m'["A"]) \cap Ids(m'["B"]) = {}
       /\ Ids(m'["D"]) \cap (Ids(m'["A"]) \cup Ids(m'["B"])) = {}]_vars

\* a merge that copied a container of B into A: the copy is equal to the
\* original, made of the nodes allocated last, and shares none with it
C18_Witness ==
  /\ last.op = "merge" /\ ~fault
  /\ \E i \in 1..Len(m["A"].keys), j \in 1..Len(m["B"].keys) :
        /\ m["A"].keys[i] = m["B"].keys[j]
        /\ isArray(m["B"].kids[j]) \/ isMap(m["B"].kids[j])
        /\ DeepEqual(m["A"].kids[i], m["B"].kids[j])
        /\ Ids(m["A"].kids[i]) \cap Ids(m["B"].kids[j]) = {}
        /\ m["A"].kids[i].id + NodeCount(m["A"].kids[i]) = next

\* the range of an Integer node of siz bytes, signed or unsigned
RangeLow(n) == IF n.uns THEN 0 ELSE 0 - Pow2(8 * n.siz - 1)
RangeHigh(n) == IF n.uns THEN Pow2(8 * n.siz) - 1 ELSE Pow2(8 * n.siz - 1) - 1

\* C19: a compound operation +=, -=, *=, /= on an Integer node of 1 or 2
\* bytes, signed or unsigned, stores the exact result of the operation
\* limited to the range of the node's width and signedness, never a
\* wrapped value.
C19_ArithmeticSaturates ==
  [][(last'.op \in ArithOps /\ last'.ok /\ m["A"].siz \in {1, 2})
       => m'["A"].num = Clamp(Operate(last'.op, m["A"].num, last'.vid),
                              RangeLow(m["A"]), RangeHigh(m["A"]))]_vars

\* C20: a Double with precision 2 and value 3.12 stays 3.12 when 3.1274 is
\* assigned, becomes 3.13 when 3.1275 is assigned and becomes 3.14 when
\* 3.135 is assigned.
C20_PrecisionHysteresis ==
  [][(last'.op = "=" /\ m["A"].prec = 2 /\ m["A"].num = 31200)
       => /\ last'.vid = 31274 => m'["A"].num = 31200
          /\ last'.vid = 31275 => m'["A"].num = 31300
          /\ last'.vid = 31350 => m'["A"].num = 31400]_vars

(***************************************************************************)
(* Properties of the net string                                            *)
(***************************************************************************)
\* the tag that ends the net string of a variant
TagOf(n) ==
  CASE n.typ = "Integer" -> "#"
    [] n.typ = "Double"  -> "^"
    [] n.typ = "String"  -> ","
    [] n.typ = "Boolean" -> "!"
    [] n.typ = "Null"    -> "~"
    [] n.typ = "Map"     -> "}"
    [] n.typ = "Array"   -> "]"

\* what stands between the first colon of t and its last character
PayloadOf(t) == SubSeq(t, IndexOf(t, ":") + 1, Len(t) - 1)

\* t is <len>:<payload><tag> for the byte length len of payload
Framed(t, payload, tag) == t = IntText(Len(payload)) \o <<":">> \o payload \o <<tag>>

\* the net strings of the children, key then value for a Map, from the
\* k-th child on
RECURSIVE ChildrenText(_, _)
ChildrenText(n, k) ==
  IF n.typ = "Map"
  THEN IF k > Len(n.order) THEN <<>>
       ELSE toNetString(COString(0, n.order[k])) \o toNetString(OrderedKid(n, k))
              \o ChildrenText(n, k + 1)
  ELSE IF k > Len(n.kids) THEN <<>>
       ELSE toNetString(n.kids[k]) \o ChildrenText(n, k + 1)

\* t is the net string the claim gives the node n
RECURSIVE NetFormed(_, _)
NetFormed(n, t) ==
  /\ Framed(t, PayloadOf(t), TagOf(n))
  /\ n.typ \in {"Map", "Array"} =>
       /\ PayloadOf(t) = ChildrenText(n, 1)
       /\ \A i \in 1..Len(n.kids) : NetFormed(n.kids[i], toNetString(n.kids[i]))

\* C21: the net string of every value is <len>:<payload><tag>, len the
\* exact length of payload and tag the tag of the variant; the payload of a
\* Map or an Array is the concatenation of the net strings of its children
\* (key then value for a Map) in insertion or index order.
C21_NetStringForm ==
  last.op = "toNetString" => NetFormed(m["A"], text)

\* the text 15:5:a,1:1#,1:b,1:x,}
ExampleTextClaimed ==
  <<"1", "5", ":", "5", ":", "a", ",", "1", ":", "1", "#", ",",
    "1", ":", "b", ",", "1", ":", "x", ",", "}">>

\* the text 16:1:a,1:1#1:b,1:x,}
ExampleText ==
  <<"1", "6", ":", "1", ":", "a", ",", "1", ":", "1", "#",
    "1", ":", "b", ",", "1", ":", "x", ",", "}">>

\* C22 as stated: the net string of the map {"a":1,"b":"x"}, keys inserted
\* in the order a, b, is exactly 15:5:a,1:1#,1:b,1:x,}
C22_ExampleNetStringClaimed ==
  last.op = "toNetString" /\ m["A"] = ExampleMap => text = ExampleTextClaimed

\* C22: the net string of the map {"a":1,"b":"x"}, keys inserted in the
\* order a, b, is exactly 16:1:a,1:1#1:b,1:x,} : each key and each value
\* framed by its own length, nothing between the entries, and 16 the length
\* of the four net strings together.
C22_ExampleNetString ==
  last.op = "toNetString" /\ m["A"] = ExampleMap => text = ExampleText

C22_Witness ==
  last.op = "toNetString" /\ m["A"] = ExampleMap /\ text = ExampleText

(***************************************************************************)
(* Properties of the lookups                                               *)
(***************************************************************************)
\* the tree n with every key in lower case
RECURSIVE LowerTree(_)
RECURSIVE LowerFrom(_, _, _)
LowerFrom(n, k, acc) ==
  IF k > Len(n.order) THEN acc
  ELSE LowerFrom(n, k + 1,
                 [MapInsert(acc, LowerStr(n.order[k]), LowerTree(OrderedKid(n, k)))
                    EXCEPT !.order = Append(@, LowerStr(n.order[k]))])

LowerTree(n) ==
  IF isMap(n) THEN LowerFrom(n, 1, COMap(n.id))
  ELSE IF isArray(n) THEN [n EXCEPT !.kids = [i \in 1..Len(n.kids) |-> LowerTree(n.kids[i])]]
  ELSE n

\* C23: findCaseElement matches the keys without regard to case at every
\* level of the path, the segments resolved below an array index included:
\* it finds what findElement finds for the path in lower case in the tree
\* whose keys are all in lower case.
C23_CaseInsensitiveAtEveryLevel ==
  last.op = "findCaseElement" =>
    last.vid = Deref(LowerTree(m["A"]), findElement(LowerTree(m["A"]), LowerStr(last.key))).id

(***************************************************************************)
(* Properties of the assignment                                            *)
(***************************************************************************)
\* the order lists of x and y agree, at every map of the two trees
RECURSIVE SameOrder(_, _)
SameOrder(x, y) ==
  /\ x.order = y.order
  /\ Len(x.kids) = Len(y.kids)
  /\ \A i \in 1..Len(x.kids) : SameOrder(x.kids[i], y.kids[i])

\* C24: after the assignment A = B of a map to a map, A is a deep copy of B
\* (equal values, no node shared) and the order in which A iterates and
\* serializes its keys is the order in which they were inserted into B.
C24_AssignKeepsInsertionOrder ==
  last.op = "assign" =>
    /\ DeepEqual(m["A"], m["B"])
    /\ Ids(m["A"]) \cap Ids(m["B"]) = {}
    /\ SameOrder(m["A"], m["B"])
    /\ toNetString(m["A"]) = toNetString(m["B"])

(***************************************************************************)
(* Properties of the coercions of diff                                     *)
(***************************************************************************)
\* the pairs of variants the coercion table names: the old value's and the
\* new value's
Coercible(old, new) ==
  \/ old.typ = "Boolean" /\ new.typ \in {"Boolean", "Integer", "Double", "String"}
  \/ old.typ = "Double"  /\ new.typ \in {"Double", "Integer", "String"}
  \/ old.typ = "Integer" /\ new.typ \in {"Integer", "String"}

\* a String read as a Boolean: true, false (in either case) or a number
TruthOfString(st) ==
  IF LowerStr(st) = <<"t", "r", "u", "e">> THEN TRUE
  ELSE IF LowerStr(st) = <<"f", "a", "l", "s", "e">> THEN FALSE
  ELSE strtol(st, 1).val # 0

\* the new value as a value of the old value's variant
CoercedValue(old, new) ==
  CASE old.typ = "Boolean" ->
         (IF (CASE new.typ = "Boolean" -> new.num # 0
                [] new.typ = "Integer" -> new.num # 0
                [] new.typ = "Double"  -> Trunc(new.num) # 0
                [] new.typ = "String"  -> TruthOfString(new.str))
          THEN 1 ELSE 0)
    [] old.typ = "Double" ->
         (CASE new.typ = "Double"  -> new.num
            [] new.typ = "Integer" -> new.num * DScale
            [] new.typ = "String"  -> strtod(new.str, 1).val)
    [] old.typ = "Integer" ->
         (CASE new.typ = "Integer" -> new.num
            [] new.typ = "String"  -> strtoll(new.str, 1, 0).val)

\* the key k, held by old and by new, is reported by the diff d exactly
\* when the coerced new value differs from the old one
ReportedIfCoercedDiffers(d, old, new, k) ==
  (old.kids[MapFind(old, k)].typ \in {"Boolean", "Double", "Integer"}
     /\ Coercible(old.kids[MapFind(old, k)], new.kids[MapFind(new, k)]))
  => ((MapFind(d, k) # 0)
        <=> (CoercedValue(old.kids[MapFind(old, k)], new.kids[MapFind(new, k)])
               # old.kids[MapFind(old, k)].num))

\* C25: when the old map holds a Boolean, a Double or an Integer under a key
\* and the new map a value the coercion table names, diff compares the new
\* value coerced to the old value's variant and reports the key only if
\* the two differ.
C25_DiffCoercesToOldVariant ==
  last.op = "diff" /\ ~fault =>
    \A i \in 1..Len(m["A"].keys) :
      MapFind(m["B"], m["A"].keys[i]) # 0 =>
        ReportedIfCoercedDiffers(m["D"], m["A"], m["B"], m["A"].keys[i])

\* the table holds for the keys that hold no colon
CoercionTableOnPlainKeys ==
  last.op = "diff" /\ ~fault =>
    \A i \in 1..Len(m["A"].keys) :
      (MapFind(m["B"], m["A"].keys[i]) # 0 /\ IndexOf(m["A"].keys[i], ":") = 0) =>
        ReportedIfCoercedDiffers(m["D"], m["A"], m["B"], m["A"].keys[i])

(***************************************************************************)
(* Properties of the line parsers                                          *)
(***************************************************************************)
\* the pieces of s between the occurrences of ch
RECURSIVE SplitOn(_, _)
SplitOn(s, ch) ==
  IF IndexOf(s, ch) = 0 THEN <<s>>
  ELSE <<SubSeq(s, 1, IndexOf(s, ch) - 1)>> \o SplitOn(From(s, IndexOf(s, ch) + 1), ch)

\* the lines of a file: a last line that no line feed ends counts unless
\* it is empty
LinesOf(s) ==
  IF SplitOn(s, "\n")[Len(SplitOn(s, "\n"))] = <<>>
  THEN SubSeq(SplitOn(s, "\n"), 1, Len(SplitOn(s, "\n")) - 1)
  ELSE SplitOn(s, "\n")

\* the printable characters of a field
Retained(f) == SelectSeq(f, LAMBDA c : 31 <= Ord(c) /\ 127 > Ord(c))

\* arr is an Array of Strings, the fields of line
IsLineOf(arr, line, sep) ==
  /\ isArray(arr)
  /\ Len(arr.kids) = Len(SplitOn(line, sep))
  /\ \A j \in 1..Len(arr.kids) :
       isString(arr.kids[j]) /\ arr.kids[j].str = Retained(SplitOn(line, sep)[j])

\* C26: parseCSV and parseTSV yield one Array of String fields for each
\* line of the input, in the order of the input, the fields being the
\* pieces between the separators; a last line that no line feed ends is
\* left out only if it is empty.
C26_OneArrayPerLine ==
  last.op \in {"parseCSV", "parseTSV"} =>
    /\ isArray(m["B"])
    /\ Len(m["B"].kids) = Len(LinesOf(text))
    /\ \A i \in 1..Len(m["B"].kids) :
         IsLineOf(m["B"].kids[i], LinesOf(text)[i], last.key[1])

(***************************************************************************)
(* Properties of the white space                                           *)
(***************************************************************************)
\* C27: between two tokens the parsers skip exactly blank, tab, line feed
\* and carriage return: with one of the four between two tokens of the
\* text {"a":7} the parse yields the tree of that text, and with another
\* character there, such as a letter, it does not.
C27_WhiteSpaceIsTheFour ==
  (last.op = "parseJson" /\ text \in SpacedTexts) =>
    \A k \in Gaps, c \in GapChars :
      text = InsertAt(BaseText, k + 1, c) =>
        IF c \in {" ", "\t", "\n", "\r"}
        THEN ~exited /\ ~fault /\ DeepEqual(m["B"], parseJson(BaseText).obj)
        ELSE ~DeepEqual(m["B"], parseJson(BaseText).obj)

(***************************************************************************)
(* Properties of the net string parser                                     *)
(***************************************************************************)
\* t is a length, a colon and fewer bytes than the length declares
DeclaredTooLong(t) ==
  /\ IsDigit(At(t, 1))
  /\ strtol(t, 1).end = IndexOf(t, ":")
  /\ strtol(t, 1).val > Len(t) - IndexOf(t, ":")

\* C28: a net string whose declared length exceeds the bytes that remain in
\* the input is rejected, no value is produced, and the parser reads no
\* position beyond the end of the input.
C28_TruncatedNetStringRejected ==
  (last.op = "parseJson" /\ DeclaredTooLong(text)) => m["B"] = NoNode /\ ~fault

\* C29: after clear() on an Array its size is 0 and it holds no reference to
\* a destroyed element; every former element is destroyed exactly once, also
\* when the array is used or destroyed afterwards (no node is deleted twice)
C29_ClearEmptiesArray ==
  /\ ~fault
  /\ (last.op = "clear" => COArraySize(m["A"]) = 0)
  /\ (isArray(m["A"]) => deleteData(m["A"]) \cap freed = {})

\* C30: if the diff of two Arrays is none, the new array has no element that
\* is absent from the old one or that differs from the old array's element
\* at the same position: it is not longer than the old array and holds at
\* every index an element of the old element's variant and value
C30_ArrayDiffNoneMeansNoChange ==
  (last.op = "diff" /\ ~fault /\ m["D"] = NoNode) =>
     /\ Len(m["B"].kids) <= Len(m["A"].kids)
     /\ \A i \in 1..Len(m["B"].kids) :
           i <= Len(m["A"].kids) => DeepEqual(m["A"].kids[i], m["B"].kids[i])

====
